---- MODULE Spec2Model ----
(***************************************************************************)
(* mozy: Model (data bag with change notification), Factory (identity ->   *)
(* constructor dispatch) and Registry (keyed cache of live models).        *)
(*                                                                         *)
(* JavaScript values are modelled as strings: "undefined" is the value     *)
(* undefined, the members of NumberVals are numbers, of BooleanVals        *)
(* booleans, everything else is a JavaScript string.  A data bag is a      *)
(* function whose DOMAIN is the set of own keys of the object.             *)
(***************************************************************************)
EXTENDS Integers, Sequences, FiniteSets, TLC

\* ------------------------------------------------------------------ bounds
MaxModels == 2

\* ------------------------------------------------------- JavaScript values
Undefined == "undefined"
NumberVals == {"0", "3", "10"}
BooleanVals == {"true", "false"}

TypeOf(v) ==
  IF v = Undefined THEN "undefined"
  ELSE IF v \in NumberVals THEN "number"
  ELSE IF v \in BooleanVals THEN "boolean"
  ELSE "string"

\* !value
Falsy(v) == v \in {Undefined, "0", "false", ""}

EmptyBag == [k \in {} |-> Undefined]

\* obj[p]: undefined when p is not an own key
Get(bag, p) == IF p \in DOMAIN bag THEN bag[p] ELSE Undefined

\* Object.assign(target, source)
ObjectAssign(target, source) ==
  [k \in DOMAIN target \cup DOMAIN source |->
     IF k \in DOMAIN source THEN source[k] ELSE target[k]]

\* uuidV4(): the value drawn by _getDefaults for the n-th instance constructed
\* and kept; a value drawn for an instance that is dropped is seen by nobody
FreshUuid(n) == "g" \o ToString(n)

\* ------------------------------------------------------------------- Model
ModelIdentity == "mozy.Model"
RectIdentity == "layout.Rect"

\* Model._getDefaults / Rect._getDefaults, with the uuid uuidV4() returned
getDefaults(cls, fresh) ==
  IF cls = "Rect"
  THEN [identity |-> RectIdentity, uuid |-> fresh,
        x |-> "0", y |-> "0", width |-> "0", height |-> "0"]
  ELSE [identity |-> ModelIdentity, uuid |-> fresh]

shouldSetDefaultValue(property, value) == TypeOf(value) = "undefined"

\* a default written over every falsy value
withDefaultData_IfFalsy(data, defaults) ==
  [k \in DOMAIN data \cup DOMAIN defaults |->
     IF k \in DOMAIN defaults /\ Falsy(Get(data, k))
     THEN defaults[k] ELSE data[k]]

withDefaultData(data, defaults) ==
  [k \in DOMAIN data \cup DOMAIN defaults |->
     IF k \in DOMAIN defaults /\ shouldSetDefaultValue(k, Get(data, k))
     THEN defaults[k] ELSE data[k]]

parseData(data) == data

\* new Constructor(data): the data bag of the new instance
ModelConstructor(cls, data, fresh) ==
  withDefaultData(parseData(data), getDefaults(cls, fresh))

\* ----------------------------------------------------------------- Factory
\* typeof value === 'function', for the values a lookup in a constructor map yields:
\* the classes Model, Rect, CustomMap and Object, a built-in or class method
\* ("method"), a value that is no function ("notAFunction"), undefined
isFunction(value) == value \in {"Model", "Rect", "Object", "CustomMap", "method"}

\* new value(...) invokes value: classes and Object, not methods
IsConstructor(value) == value \in {"Model", "Rect", "Object", "CustomMap"}

\* what a plain object inherits from Object.prototype
ObjectPrototype == [constructor |-> "Object", toString |-> "method"]

\* what an instance of the test's CustomMap inherits
CustomMapPrototype == [constructor |-> "CustomMap", get |-> "method", toString |-> "method"]

\* the kinds of constructor map: a plain object, a native Map, an object with get()
MapKinds == {"object", "Map", "getter"}

\* hasGetMethod(value)
hasGetMethod(map) == map.kind = "getter"

\* this._constructorMap[identity]: own properties, then the prototype chain.
\* The own properties of a plain object are its entries; those of a CustomMap
\* are what was assigned onto the instance, its _map being read by get() only
PropertyOf(map, identity) ==
  IF map.kind = "object" /\ identity \in DOMAIN map.entries
  THEN map.entries[identity]
  ELSE IF map.kind = "getter" /\ identity \in DOMAIN map.own
  THEN map.own[identity]
  ELSE Get(IF map.kind = "getter" THEN CustomMapPrototype ELSE ObjectPrototype, identity)

\* Factory.getConstructor(identity) of a factory over map = [kind, entries, own]
Factory_getConstructor(map, identity) ==
  IF map.kind = "Map"
  THEN Get(map.entries, identity)
  ELSE IF hasGetMethod(map) /\ ~Falsy(Get(map.entries, identity))
  THEN Get(map.entries, identity)
  ELSE PropertyOf(map, identity)

\* Factory.requireConstructor(identity): [err, value]
Factory_requireConstructor(map, identity) ==
  LET Ctor == Factory_getConstructor(map, identity)
  IN IF Falsy(Ctor)
     THEN [err |-> "TypeError", value |-> Undefined]
     ELSE [err |-> "none", value |-> Ctor]

\* Factory.isKnownIdentity(identity)
Factory_isKnownIdentity(map, identity) == isFunction(Factory_getConstructor(map, identity))

\* isPlainObject(value), value = [type, bag]: an object literal, an object with
\* a null prototype, undefined, an array or a Model instance
isPlainObject(value) == value.type \in {"object", "nullproto"}

\* this._identityGetter(obj), for the identityGetter the constructor was given:
\* undefined, an attribute name, or the test's obj => 'mozy.' + obj.discriminator
identityGetter(getter, obj) ==
  IF getter = "function"
  THEN "mozy." \o Get(obj, "discriminator")
  ELSE Get(obj, IF getter = Undefined THEN "identity" ELSE getter)

\* Factory.getIdentityOf(obj): [err, value]
Factory_getIdentityOf(getter, obj) ==
  IF ~isPlainObject(obj)
  THEN [err |-> "TypeError", value |-> Undefined]
  ELSE [err |-> "none", value |-> identityGetter(getter, obj.bag)]

\* Factory.requireIdentityOf(obj): [err, value]
Factory_requireIdentityOf(getter, obj) ==
  LET identity == Factory_getIdentityOf(getter, obj)
  IN IF identity.err = "none" /\ TypeOf(identity.value) = "undefined"
     THEN [err |-> "TypeError", value |-> Undefined]
     ELSE identity

\* Factory.hasIdentityDefined(obj): [err, value]
Factory_hasIdentityDefined(getter, obj) ==
  LET identity == Factory_getIdentityOf(getter, obj)
  IN [err |-> identity.err,
      value |-> identity.err = "none" /\ TypeOf(identity.value) # "undefined"]

\* the outcome of a call that returned no instance
Thrown(invoked) ==
  [err |-> "TypeError", invoked |-> invoked, cls |-> Undefined,
   dataRef |-> Undefined, data |-> EmptyBag, previous |-> EmptyBag]

\* new Constructor(...constructorArgs): [err, invoked, cls, dataRef, data, previous].
\* A Model keeps the bag it is given (dataRef "arg"), fills in its defaults and
\* starts with _previousData = {}; Object returns the object it is given;
\* CustomMap iterates its argument.
Construct(Ctor, args, fresh) ==
  LET bag == IF args = <<>> THEN EmptyBag ELSE args[1].bag
      ref == IF args = <<>> THEN "new" ELSE "arg"
  IN IF ~IsConstructor(Ctor) THEN Thrown(Undefined)
     ELSE IF Ctor = "CustomMap" THEN Thrown(Ctor)
     ELSE [err |-> "none", invoked |-> Ctor, cls |-> Ctor, dataRef |-> ref,
           data |-> IF Ctor = "Object" THEN bag ELSE ModelConstructor(Ctor, bag, fresh),
           previous |-> EmptyBag]

\* Factory.newInstance(identity, ...constructorArgs)
Factory_newInstance(map, identity, args, fresh) ==
  LET Ctor == Factory_requireConstructor(map, identity)
  IN IF Ctor.err # "none" THEN Thrown(Undefined)
     ELSE Construct(Ctor.value, args, fresh)

\* Factory.newInstanceFor(obj)
Factory_newInstanceFor(map, getter, obj, fresh) ==
  LET identity == Factory_requireIdentityOf(getter, obj)
  IN IF identity.err # "none" THEN Thrown(Undefined)
     ELSE Factory_newInstance(map, identity.value, <<obj>>, fresh)

\* identities = new Map(), with the classes registered by identities.set(...)
constructorMap == (ModelIdentity :> "Model") @@ (RectIdentity :> "Rect")

\* modelFactory = new Factory(modelIdentities): a factory over that native Map
modelFactory == [kind |-> "Map", entries |-> constructorMap, own |-> EmptyBag]

getIdentityOf(obj) == Get(obj, "identity")

getConstructor(identity) == Factory_getConstructor(modelFactory, identity)

\* Factory.newInstanceFor(obj): [err, isModel, cls, data]
FactoryNewInstanceFor(obj, fresh) ==
  LET identity == getIdentityOf(obj)
      Ctor == getConstructor(identity)
  IN IF TypeOf(identity) = "undefined"
     THEN [err |-> "TypeError", isModel |-> FALSE, cls |-> Undefined, data |-> EmptyBag]
     ELSE IF Ctor = Undefined
     THEN [err |-> "TypeError", isModel |-> FALSE, cls |-> Undefined, data |-> EmptyBag]
     ELSE [err |-> "none", isModel |-> TRUE, cls |-> Ctor,
           data |-> ModelConstructor(Ctor, obj, fresh)]

\* ---------------------------------------------------------------- Registry
VARIABLES
  models,      \* the live Model instances, by instance number: [cls, data, obj],
               \* obj the data object the instance holds
  rMap,        \* Registry._map: [own, defined, entries], entries: key -> instance
  rFactory,    \* Registry._factory: a factory kind, or Undefined
  rOptions,    \* Registry._options: [defined, allowOverrides]
  rKeyGetter,  \* Registry._keyGetter is defined
  last,        \* the call being observed: its arguments and its outcome
  issued,      \* key -> the instance the latest getModel for that key returned,
               \* while the entry under that key has not been removed or replaced
  mData,          \* Model._data of the model observed on its own
  mPreviousData,  \* Model._previousData of that model
  mCall,          \* the call on that model being observed: arguments, events, outcome
  mCreated,       \* the uuid and identity that model had when its constructor returned
  mDrawn,         \* how many uuidV4() values have become that model's uuid
  cCls,           \* the class of the model that is copied
  cData,          \* its data, a tree: path -> node, over a heap of objects
  cKeys,          \* the keys of its data in insertion order, absent ones included
  cCopy,          \* what copy() returned: [made, cls, data, keys]
  cCall,          \* the latest call observed on the original or on the copy
  fMap,           \* Factory._constructorMap: [kind, entries, own]; entries: identity ->
                  \* value, the entries of a Map, the properties of a plain object,
                  \* the _map of a CustomMap; own: what was assigned onto a CustomMap
  fGetter,        \* the identityGetter the Factory was constructed with
  fCall,          \* the call on the Factory being observed: arguments and outcome
  gInstances,     \* Registry._instances: name -> registry, by registry number
  gRegs,          \* the Registry instances constructed: [factory, allowOverrides, disposed]
  gCall,          \* the Registry.get or dispose call being observed
  hObjects,       \* the nested data bags, by object: object -> bag
  hNested,        \* parent -> the object parent.get(f) returns
  hInst,          \* per instance in models: [ref, previousData], ref the object it holds
  hFirst,         \* parent -> the instance the first getModel(parent.get(f)) returned
  hCall,          \* the sub-model call being observed
  eListeners,     \* the listeners of the model, in registration order: [id, event, throws]
  eDefined,       \* _data and _previousData of the model are objects, not undefined
  eDisposed,      \* dispose() has been called on the model
  eRemoved,       \* the listeners that were registered when dispose() was called
  eIssued,        \* how many listeners have been registered so far
  eCall           \* the call being observed: arguments, listeners invoked, outcome

regVars == <<models, rMap, rFactory, rOptions, rKeyGetter, last, issued>>
modelVars == <<mData, mPreviousData, mCall, mCreated, mDrawn>>
copyVars == <<cCls, cData, cKeys, cCopy, cCall>>
factoryVars == <<fMap, fGetter, fCall>>
multitonVars == <<gInstances, gRegs, gCall>>
nestedVars == <<hObjects, hNested, hInst, hFirst, hCall>>
listenerVars == <<eListeners, eDefined, eDisposed, eRemoved, eIssued, eCall>>
vars == <<regVars, modelVars, copyVars, factoryVars, multitonVars, nestedVars, listenerVars>>

\* what an action of one component leaves alone
outsideRegistry == <<modelVars, copyVars, factoryVars, multitonVars, nestedVars, listenerVars>>
outsideModel == <<regVars, copyVars, factoryVars, multitonVars, nestedVars, listenerVars>>
outsideCopy == <<regVars, modelVars, factoryVars, multitonVars, nestedVars, listenerVars>>
outsideFactory == <<regVars, modelVars, copyVars, multitonVars, nestedVars, listenerVars>>
outsideNested == <<modelVars, copyVars, factoryVars, multitonVars, listenerVars>>
outsideListeners == <<regVars, copyVars, factoryVars, multitonVars, nestedVars>>
outsideMultiton == <<regVars, modelVars, copyVars, factoryVars, nestedVars, listenerVars>>

ALLOW_OVERRIDES == TRUE
DONT_ALLOW_OVERRIDES == FALSE

keyAttr == "uuid"

\* defaultOptions.keyValidator
keyValidator(key) == TypeOf(key) = "string"

\* the factories a registry is given: a Factory over the package's identities,
\* and three factory functions: data => new Model(data), one that returns a
\* model of its own making whatever the data, () => new Model({uuid: FixedKey}),
\* and one that returns no Model, () => {}
FactoryKinds == {"Factory", "fnModel", "fnFixedKey", "fnNonModel"}

\* the uuid of the models the fixed-key factory function makes
FixedKey == "u1"
CtorArgs == {"none", "Model", "Throwing"}

NoResult == 0
ErrResult(e) == [err |-> e, key |-> Undefined]

\* Registry.getValidKeyIn(data): [err, key]
getValidKeyIn(arg) ==
  IF ~arg.defined THEN ErrResult("TypeError")
  ELSE IF ~rKeyGetter THEN ErrResult("TypeError")
  ELSE LET key == Get(arg.bag, keyAttr)
       IN IF ~rOptions.defined THEN ErrResult("TypeError")
          ELSE IF ~keyValidator(key)
          THEN [err |-> "InvalidRegistryKeyError", key |-> key]
          ELSE [err |-> "none", key |-> key]

\* validate without the override test
validate_NoOverrideTest(entries, key, valueIsModel) ==
  IF ~rOptions.defined THEN "TypeError"
  ELSE IF ~keyValidator(key) THEN "InvalidRegistryKeyError"
  ELSE IF ~rMap.defined THEN "TypeError"
  ELSE IF ~valueIsModel THEN "TypeError"
  ELSE "none"

\* validate without the instanceof Model test
validate_NoModelTest(entries, key, valueIsModel) ==
  IF ~rOptions.defined THEN "TypeError"
  ELSE IF ~keyValidator(key) THEN "InvalidRegistryKeyError"
  ELSE IF ~rMap.defined THEN "TypeError"
  ELSE IF key \in DOMAIN entries /\ rOptions.allowOverrides = DONT_ALLOW_OVERRIDES
  THEN "Error"
  ELSE "none"

\* Registry.validate(key, value) against the entries given: the error raised
validate(entries, key, valueIsModel) ==
  IF ~rOptions.defined THEN "TypeError"
  ELSE IF ~keyValidator(key) THEN "InvalidRegistryKeyError"
  ELSE IF ~rMap.defined THEN "TypeError"
  ELSE IF key \in DOMAIN entries /\ rOptions.allowOverrides = DONT_ALLOW_OVERRIDES
  THEN "Error"
  ELSE IF ~valueIsModel THEN "TypeError"
  ELSE "none"

\* set that writes the map before it validates
set_WriteFirst(entries, key, value, valueIsModel) ==
  [err |-> validate(entries, key, valueIsModel), entries |-> (key :> value) @@ entries]

\* Registry.set(key, value): [err, entries]
set(entries, key, value, valueIsModel) ==
  LET e == validate(entries, key, valueIsModel)
  IN IF e # "none" THEN [err |-> e, entries |-> entries]
     ELSE [err |-> "none", entries |-> (key :> value) @@ entries]

\* Registry.newInstanceFor(data) / new Constructor(data): [err, isModel, cls, data]
Failed(e) == [err |-> e, isModel |-> FALSE, cls |-> Undefined, data |-> EmptyBag]

newInstanceFor(bag, fresh) ==
  IF rFactory = Undefined THEN Failed("TypeError")
  ELSE IF rFactory = "Factory" THEN FactoryNewInstanceFor(bag, fresh)
  ELSE IF rFactory = "fnModel"
  THEN [err |-> "none", isModel |-> TRUE, cls |-> "Model",
        data |-> ModelConstructor("Model", bag, fresh)]
  ELSE IF rFactory = "fnFixedKey"
  THEN [err |-> "none", isModel |-> TRUE, cls |-> "Model",
        data |-> ModelConstructor("Model", [uuid |-> FixedKey], fresh)]
  ELSE [err |-> "none", isModel |-> FALSE, cls |-> Undefined, data |-> EmptyBag]

\* the model constructed holds the object the caller passed: every constructor
\* and every factory does but the function that makes its own bag
HoldsArgument(Ctor) == Ctor # "none" \/ rFactory # "fnFixedKey"

\* new Constructor(data) that builds a plain Model whatever Constructor is
newConstructor_Base(Ctor, bag, fresh) ==
  IF Ctor = "Throwing" THEN Failed("TypeError")
  ELSE [err |-> "none", isModel |-> TRUE, cls |-> "Model",
        data |-> ModelConstructor("Model", bag, fresh)]

newConstructor(Ctor, bag, fresh) ==
  IF Ctor = "Throwing" THEN Failed("TypeError")
  ELSE [err |-> "none", isModel |-> TRUE, cls |-> Ctor,
        data |-> ModelConstructor(Ctor, bag, fresh)]

\* register that resolves the key and forgets to set
register_NoSet(entries, obj, id, key) ==
  [err |-> "none", key |-> IF key = Undefined THEN Get(obj.data, keyAttr) ELSE key,
   entries |-> entries]

\* Registry.register(model, key): [err, key, entries]
register(entries, obj, id, key) ==
  LET own == IF obj.isModel
             THEN getValidKeyIn([defined |-> TRUE, bag |-> obj.data])
             ELSE ErrResult("TypeError")
      resolved == IF key = Undefined THEN own ELSE [err |-> "none", key |-> key]
  IN IF resolved.err # "none"
     THEN [err |-> resolved.err, key |-> resolved.key, entries |-> entries]
     ELSE LET s == set(entries, resolved.key, id, obj.isModel)
          IN [err |-> s.err, key |-> resolved.key, entries |-> s.entries]

\* getModel that never looks the key up
hasCached_Never(entries, k) == FALSE

\* the registered-model branch of getModel: has(cachedKey)
hasCached(entries, k) == k.err = "none" /\ k.key \in DOMAIN entries

\* a catch that rethrows the invalid-key error too
rethrown_InvalidKeyToo(e) == e # "none"

\* the catch of getModel: an error that is no InvalidRegistryKeyError is rethrown
rethrown(e) == e \notin {"none", "InvalidRegistryKeyError"}

\* Registry.getModel(data, Constructor):
\*   [err, result, key, entries, constructed, made]
getModel(arg, Ctor) ==
  LET k == getValidKeyIn(arg)
      fresh == FreshUuid(Len(models) + 1)
      id == Len(models) + 1
  IN IF rethrown(k.err)
     THEN [err |-> k.err, result |-> NoResult, key |-> Undefined,
           entries |-> rMap.entries, constructed |-> 0, made |-> Failed(k.err)]
     ELSE IF k.err = "none" /\ ~rMap.defined
     THEN [err |-> "TypeError", result |-> NoResult, key |-> k.key,
           entries |-> rMap.entries, constructed |-> 0, made |-> Failed("TypeError")]
     ELSE IF hasCached(rMap.entries, k)
     THEN [err |-> "none", result |-> rMap.entries[k.key], key |-> k.key,
           entries |-> rMap.entries, constructed |-> 0, made |-> Failed("none")]
     ELSE LET cachedKey == IF k.err = "none" THEN k.key ELSE Undefined
              made == IF Ctor # "none" THEN newConstructor(Ctor, arg.bag, fresh)
                      ELSE newInstanceFor(arg.bag, fresh)
          IN IF made.err # "none"
             THEN [err |-> made.err, result |-> NoResult, key |-> cachedKey,
                   entries |-> rMap.entries, constructed |-> 0, made |-> made]
             ELSE LET r == register(rMap.entries, made, id, cachedKey)
                      n == IF made.isModel THEN 1 ELSE 0
                  IN IF r.err # "none"
                     THEN [err |-> r.err, result |-> NoResult, key |-> r.key,
                           entries |-> r.entries, constructed |-> n, made |-> made]
                     ELSE [err |-> "none", result |-> id, key |-> r.key,
                           entries |-> r.entries, constructed |-> n, made |-> made]

\* -------------------------------------------------------- Registry: inputs
\* a data bag {uuid: u, identity: i}; an undefined field is left out
MkBag(u, i) ==
  [k \in (IF u = Undefined THEN {} ELSE {"uuid"}) \cup
         (IF i = Undefined THEN {} ELSE {"identity"}) |->
     IF k = "uuid" THEN u ELSE i]

UuidInputs == {Undefined, "u1", "3"}
IdentityInputs == {Undefined, RectIdentity}
KeyInputs == {"u1", "3"}

\* a data argument: the bag as the callee finds it, and ref, the data object
\* of live models that it is, objects being numbered by the first model built
\* on them (0 for an object literal)
NoData == [defined |-> FALSE, bag |-> EmptyBag, ref |-> 0]
Data(bag) == [defined |-> TRUE, bag |-> bag, ref |-> 0]

\* models[m].getDataReference()
DataReference(m) == [defined |-> TRUE, bag |-> models[m].data, ref |-> models[m].obj]

\* a constructor has written data into the object obj: every live model built
\* on that object holds what was written
WriteThrough(ms, obj, data) ==
  [i \in 1..Len(ms) |-> IF ms[i].obj = obj THEN [ms[i] EXCEPT !.data = data] ELSE ms[i]]

\* the object a model constructed as the id-th holds: the one it was handed,
\* or a new one
ObjectOf(arg, holdsArgument, id) == IF arg.ref # 0 /\ holdsArgument THEN arg.ref ELSE id

\* the data arguments: undefined, literal bags, and the data references of live models
DataArgs ==
  {NoData, Data(MkBag("u1", "unknown.Thing"))}
           \cup {Data(MkBag(u, i)) : u \in UuidInputs, i \in IdentityInputs}
           \cup {DataReference(m) : m \in 1..Len(models)}

\* the arguments of dataHasValidKey: undefined, and bags with no key, a valid
\* key and an invalid key
KeyArgs == {NoData} \cup {Data(MkBag(u, Undefined)) : u \in UuidInputs}

Without(f, key) == [k \in DOMAIN f \ {key} |-> f[k]]

\* no call is being observed: the caller is about to make its next call
Idle ==
  [op |-> "idle", arg |-> NoData, ctor |-> "none", key |-> Undefined, value |-> 0,
   err |-> "none", result |-> NoResult, constructed |-> 0, seen |-> FALSE,
   returned |-> FALSE, keyArg |-> Undefined, factory |-> Undefined,
   replaced |-> FALSE]

\* dataHasValidKey that answers false to every error
dataHasValidKey_CatchAll(arg) ==
  [err |-> "none", returned |-> getValidKeyIn(arg).err = "none"]

\* Registry.dataHasValidKey(data): [err, returned]
dataHasValidKey(arg) ==
  LET k == getValidKeyIn(arg)
  IN IF k.err = "none" THEN [err |-> "none", returned |-> TRUE]
     ELSE IF k.err = "InvalidRegistryKeyError" THEN [err |-> "none", returned |-> FALSE]
     ELSE [err |-> k.err, returned |-> FALSE]

\* delete that always answers true
delete_AlwaysTrue(entries, key) ==
  IF ~rMap.defined THEN [err |-> "TypeError", entries |-> entries, returned |-> FALSE]
  ELSE [err |-> "none", entries |-> Without(entries, key), returned |-> TRUE]

\* Registry.delete(key): [err, entries, returned]
delete(entries, key) ==
  IF ~rMap.defined THEN [err |-> "TypeError", entries |-> entries, returned |-> FALSE]
  ELSE [err |-> "none", entries |-> Without(entries, key),
        returned |-> key \in DOMAIN entries]

\* Registry.unregister(model, key): [err, key, entries, returned]
unregister(entries, data, key) ==
  LET resolved == IF key = Undefined THEN getValidKeyIn(Data(data))
                  ELSE [err |-> "none", key |-> key]
  IN IF resolved.err # "none"
     THEN [err |-> resolved.err, key |-> resolved.key, entries |-> entries,
           returned |-> FALSE]
     ELSE LET d == delete(entries, resolved.key)
          IN [err |-> d.err, key |-> resolved.key, entries |-> d.entries,
              returned |-> d.returned]

\* Registry.clear(): [err, entries]
clear(entries) ==
  IF ~rMap.defined THEN [err |-> "TypeError", entries |-> entries]
  ELSE [err |-> "none", entries |-> EmptyBag]

\* the "already disposed?" test of dispose: the instance has no own property _map
alreadyDisposed == ~rMap.own

\* Registry._deleteReferences(): the four fields are assigned undefined
deleteReferences ==
  [map |-> [own |-> rMap.own, defined |-> FALSE, entries |-> EmptyBag],
   factory |-> Undefined,
   options |-> [defined |-> FALSE, allowOverrides |-> rOptions.allowOverrides],
   keyGetter |-> FALSE]

\* Registry set factory(value), valid when value is a Factory instance or a
\* function: [err, factory]
setFactory(value) ==
  IF value \notin FactoryKinds THEN [err |-> "TypeError", factory |-> rFactory]
  ELSE [err |-> "none", factory |-> value]

\* Registry.dispose(): [err, map, factory, options, keyGetter]
dispose ==
  LET kept == [map |-> rMap, factory |-> rFactory, options |-> rOptions,
               keyGetter |-> rKeyGetter]
      c == clear(rMap.entries)
      d == deleteReferences
  IN IF alreadyDisposed THEN [err |-> "none"] @@ kept
     ELSE IF c.err # "none" THEN [err |-> c.err] @@ kept
     ELSE [err |-> "none"] @@ d

\* no call on the model is being observed
ModelIdle ==
  [op |-> "idle", property |-> Undefined, value |-> Undefined, setSilent |-> FALSE,
   unsetIfFalsy |-> FALSE, bag |-> EmptyBag, err |-> "none", events |-> <<>>,
   properties |-> <<>>, returned |-> FALSE]

\* no model is observed on its own
NoModel ==
  /\ mData = EmptyBag
  /\ mPreviousData = EmptyBag
  /\ mCall = ModelIdle
  /\ mCreated = [uuid |-> Undefined, identity |-> Undefined]
  /\ mDrawn = 0

\* a tree with no node
EmptyTree == [path \in {} |-> [kind |-> "object", atoms |-> <<>>, id |-> 0]]

\* no model is being copied
NoCopy ==
  /\ cCls = Undefined
  /\ cData = EmptyTree
  /\ cKeys = <<>>
  /\ cCopy = [made |-> FALSE, cls |-> Undefined, data |-> EmptyTree, keys |-> <<>>]
  /\ cCall = [op |-> "idle", target |-> Undefined, path |-> <<>>]

\* an argument that is not given
NoArg == [type |-> "undefined", bag |-> EmptyBag]

\* no call on the factory is being observed
FactoryIdle ==
  [op |-> "idle", identity |-> Undefined, args |-> <<>>, err |-> "none",
   value |-> FALSE, out |-> Thrown(Undefined)]

\* the package's modelFactory, with no call on it observed
NoFactory ==
  /\ fMap = modelFactory
  /\ fGetter = Undefined
  /\ fCall = FactoryIdle

\* no Registry.get call is being observed
MultitonIdle ==
  [op |-> "idle", name |-> Undefined, factory |-> Undefined, allowOverrides |-> FALSE,
   err |-> "none", result |-> NoResult]

\* Registry._instances is the empty Map the module creates
NoMultiton ==
  /\ gInstances = EmptyBag
  /\ gRegs = <<>>
  /\ gCall = MultitonIdle

\* the calls of the sub-model section: none observed
NestedIdle ==
  [op |-> "idle", parent |-> 0, instance |-> 0, property |-> Undefined,
   value |-> Undefined, err |-> "none"]

\* no parent model with nested data bags
NoNested ==
  /\ hObjects = <<>>
  /\ hNested = <<>>
  /\ hInst = <<>>
  /\ hFirst = <<>>
  /\ hCall = NestedIdle

\* no call on the model with listeners is being observed
ListenerIdle ==
  [op |-> "idle", property |-> Undefined, value |-> Undefined, bag |-> EmptyBag,
   setSilent |-> FALSE, err |-> "none", invoked |-> <<>>, received |-> <<>>,
   seen |-> EmptyBag]

\* no model with listeners is observed
NoListeners ==
  /\ eListeners = <<>>
  /\ eDefined = TRUE
  /\ eDisposed = FALSE
  /\ eRemoved = {}
  /\ eIssued = 0
  /\ eCall = ListenerIdle

\* ------------------------------------------------------- Registry: actions
RegInit ==
  /\ NoModel
  /\ NoCopy
  /\ NoFactory
  /\ NoMultiton
  /\ NoNested
  /\ NoListeners
  /\ models = <<>>
  /\ rMap = [own |-> TRUE, defined |-> TRUE, entries |-> EmptyBag]
  /\ rFactory \in FactoryKinds
  /\ rOptions \in {[defined |-> TRUE, allowOverrides |-> a] :
                     a \in {ALLOW_OVERRIDES, DONT_ALLOW_OVERRIDES}}
  /\ rKeyGetter = TRUE
  /\ last = Idle
  /\ issued = EmptyBag

\* new Constructor(data), outside the registry
NewModel(cls, bag) ==
  /\ last = Idle
  /\ Len(models) < MaxModels
  /\ models' = Append(models, [cls |-> cls,
                               data |-> ModelConstructor(cls, bag, FreshUuid(Len(models) + 1)),
                               obj |-> Len(models) + 1])
  /\ last' = [Idle EXCEPT !.op = "new", !.arg = Data(bag), !.ctor = cls,
                          !.result = Len(models) + 1, !.constructed = 1]
  /\ UNCHANGED <<rMap, rFactory, rOptions, rKeyGetter, issued, outsideRegistry>>

\* registry.getModel(data, Constructor)
\* the constructor writes its defaults into the object it is handed, so a
\* model built from the data reference of a live model shares that object with
\* it and with every other model built on it
RegistryGetModel(arg, Ctor) ==
  LET o == getModel(arg, Ctor)
      added == o.err = "none" /\ o.constructed = 1
      shared == IF o.constructed = 1 /\ arg.ref # 0 /\ HoldsArgument(Ctor)
                THEN WriteThrough(models, arg.ref, o.made.data)
                ELSE models
  IN /\ last = Idle
     /\ added => Len(models) < MaxModels
     /\ models' = IF added
                  THEN Append(shared, [cls |-> o.made.cls, data |-> o.made.data,
                                       obj |-> ObjectOf(arg, HoldsArgument(Ctor),
                                                        Len(models) + 1)])
                  ELSE shared
     /\ rMap' = [rMap EXCEPT !.entries = o.entries]
     /\ last' = [Idle EXCEPT !.op = "getModel", !.arg = arg, !.ctor = Ctor,
                             !.key = o.key, !.err = o.err, !.result = o.result,
                             !.constructed = o.constructed,
                             !.seen = arg.defined /\ Get(arg.bag, keyAttr) \in DOMAIN issued,
                             !.replaced = added /\ o.key \in DOMAIN rMap.entries]
     /\ issued' = IF o.err = "none" THEN (o.key :> o.result) @@ issued ELSE issued
     /\ UNCHANGED <<rFactory, rOptions, rKeyGetter, outsideRegistry>>

\* registry.newInstanceFor(data): the factory constructs a model on the object
\* it is handed and nothing is registered
RegistryNewInstanceFor(arg) ==
  LET o == newInstanceFor(arg.bag, FreshUuid(Len(models) + 1))
      added == o.err = "none" /\ o.isModel
      shared == IF added /\ arg.ref # 0 /\ HoldsArgument("none")
                THEN WriteThrough(models, arg.ref, o.data)
                ELSE models
  IN /\ last = Idle
     /\ added => Len(models) < MaxModels
     /\ models' = IF added
                  THEN Append(shared, [cls |-> o.cls, data |-> o.data,
                                       obj |-> ObjectOf(arg, HoldsArgument("none"),
                                                        Len(models) + 1)])
                  ELSE models
     /\ last' = [Idle EXCEPT !.op = "newInstanceFor", !.arg = arg, !.err = o.err,
                             !.result = IF added THEN Len(models) + 1 ELSE NoResult,
                             !.constructed = IF added THEN 1 ELSE 0]
     /\ UNCHANGED <<rMap, rFactory, rOptions, rKeyGetter, issued, outsideRegistry>>

\* registry.set(key, value); value 0 is an object that is no Model
RegistrySet(key, value) ==
  LET s == set(rMap.entries, key, value, value # 0)
  IN /\ last = Idle
     /\ rMap' = [rMap EXCEPT !.entries = s.entries]
     /\ last' = [Idle EXCEPT !.op = "set", !.key = key, !.value = value, !.err = s.err]
     /\ issued' = IF s.err = "none" THEN Without(issued, key) ELSE issued
     /\ UNCHANGED <<models, rFactory, rOptions, rKeyGetter, outsideRegistry>>

\* registry.register(model, key)
RegistryRegister(m, key) ==
  LET r == register(rMap.entries, [isModel |-> TRUE, data |-> models[m].data], m, key)
  IN /\ last = Idle
     /\ rMap' = [rMap EXCEPT !.entries = r.entries]
     /\ last' = [Idle EXCEPT !.op = "register", !.key = r.key, !.value = m, !.err = r.err,
                             !.keyArg = key]
     /\ issued' = IF r.err = "none" THEN Without(issued, r.key) ELSE issued
     /\ UNCHANGED <<models, rFactory, rOptions, rKeyGetter, outsideRegistry>>

\* registry.unregister(model, key)
RegistryUnregister(m, key) ==
  LET u == unregister(rMap.entries, models[m].data, key)
  IN /\ last = Idle
     /\ rMap' = [rMap EXCEPT !.entries = u.entries]
     /\ last' = [Idle EXCEPT !.op = "unregister", !.key = u.key, !.value = m, !.err = u.err,
                             !.keyArg = key, !.returned = u.returned]
     /\ issued' = IF u.err = "none" THEN Without(issued, u.key) ELSE issued
     /\ UNCHANGED <<models, rFactory, rOptions, rKeyGetter, outsideRegistry>>

\* registry.dataHasValidKey(data)
RegistryDataHasValidKey(arg) ==
  LET h == dataHasValidKey(arg)
  IN /\ last = Idle
     /\ last' = [Idle EXCEPT !.op = "dataHasValidKey", !.arg = arg, !.err = h.err,
                             !.returned = h.returned]
     /\ UNCHANGED <<models, rMap, rFactory, rOptions, rKeyGetter, issued, outsideRegistry>>

\* registry.delete(key)
RegistryDelete(key) ==
  LET d == delete(rMap.entries, key)
  IN /\ last = Idle
     /\ rMap' = [rMap EXCEPT !.entries = d.entries]
     /\ last' = [Idle EXCEPT !.op = "delete", !.key = key, !.err = d.err,
                             !.returned = d.returned]
     /\ issued' = IF d.err = "none" THEN Without(issued, key) ELSE issued
     /\ UNCHANGED <<models, rFactory, rOptions, rKeyGetter, outsideRegistry>>

\* registry.clear()
RegistryClear ==
  LET c == clear(rMap.entries)
  IN /\ last = Idle
     /\ rMap' = [rMap EXCEPT !.entries = c.entries]
     /\ last' = [Idle EXCEPT !.op = "clear", !.err = c.err]
     /\ issued' = IF c.err = "none" THEN EmptyBag ELSE issued
     /\ UNCHANGED <<models, rFactory, rOptions, rKeyGetter, outsideRegistry>>

\* registry.dispose()
RegistryDispose ==
  LET d == dispose
  IN /\ last = Idle
     /\ rMap' = d.map
     /\ rFactory' = d.factory
     /\ rOptions' = d.options
     /\ rKeyGetter' = d.keyGetter
     /\ last' = [Idle EXCEPT !.op = "dispose", !.err = d.err]
     /\ issued' = IF d.err = "none" THEN EmptyBag ELSE issued
     /\ UNCHANGED <<models, outsideRegistry>>

\* registry.factory = value
RegistrySetFactory(value) ==
  LET f == setFactory(value)
  IN /\ last = Idle
     /\ rFactory' = f.factory
     /\ last' = [Idle EXCEPT !.op = "factory=", !.factory = value, !.err = f.err]
     /\ UNCHANGED <<models, rMap, rOptions, rKeyGetter, issued, outsideRegistry>>

\* the call has returned or raised and the caller has seen the outcome
Return ==
  /\ last # Idle
  /\ last' = Idle
  /\ UNCHANGED <<models, rMap, rFactory, rOptions, rKeyGetter, issued, outsideRegistry>>

RegNext ==
  \/ NewModel("Model", EmptyBag)
  \/ \E arg \in DataArgs, Ctor \in CtorArgs : RegistryGetModel(arg, Ctor)
  \/ \E arg \in DataArgs : RegistryNewInstanceFor(arg)
  \/ \E key \in KeyInputs, value \in 0..Len(models) : RegistrySet(key, value)
  \/ \E m \in 1..Len(models), key \in {Undefined} \cup KeyInputs : RegistryRegister(m, key)
  \/ \E m \in 1..Len(models), key \in {Undefined} \cup KeyInputs : RegistryUnregister(m, key)
  \/ \E arg \in KeyArgs : RegistryDataHasValidKey(arg)
  \/ \E key \in KeyInputs : RegistryDelete(key)
  \/ RegistryClear
  \/ RegistryDispose
  \/ \E value \in FactoryKinds \cup {Undefined} : RegistrySetFactory(value)
  \/ Return

SpecRegistry == RegInit /\ [][RegNext]_vars

\* ---------------------------------------------------------- Registry: claims

\* C1: on one registry, while the entry under a key has not been deleted,
\* unregistered, cleared or overridden since a getModel call returned an instance
\* for that key, every later getModel call whose data bag carries that key
\* returns that same instance and constructs no new Model.
C1_RegistryDedup ==
  [][(last'.op = "getModel" /\ last'.arg.defined
        /\ Get(last'.arg.bag, keyAttr) \in DOMAIN issued)
       => /\ last'.err = "none"
          /\ last'.result = issued[Get(last'.arg.bag, keyAttr)]
          /\ last'.constructed = 0
          /\ models' = models
          /\ rMap' = rMap]_vars

\* a second getModel for a key an earlier getModel answered has returned
C1_Witness ==
  /\ last.op = "getModel" /\ last.seen /\ last.err = "none"
  /\ last.result \in 1..Len(models)

\* C2: a getModel call that finds no entry for the key of its data bag and
\* returns has constructed exactly one new model, of Constructor when one was
\* supplied and otherwise what the factory makes (of the class a Factory maps
\* the bag's identity to, a Model from the factory functions that make Models),
\* has registered it under the key extracted from the bag when that key was
\* valid and otherwise under the key of the model's own data, and has changed
\* no other entry: registry.get(key) is the returned instance.
C2_GetOrCreateMiss ==
  [][(last'.op = "getModel" /\ last'.err = "none"
        /\ ~(keyValidator(Get(last'.arg.bag, keyAttr))
               /\ Get(last'.arg.bag, keyAttr) \in DOMAIN rMap.entries))
       => LET m == last'.result
              dataKey == Get(last'.arg.bag, keyAttr)
          IN /\ last'.constructed = 1
             /\ Len(models') = Len(models) + 1
             /\ m = Len(models')
             /\ models'[m].cls = IF last'.ctor # "none" THEN last'.ctor
                                 ELSE IF rFactory = "Factory"
                                 THEN constructorMap[Get(last'.arg.bag, "identity")]
                                 ELSE "Model"
             /\ last'.key = IF keyValidator(dataKey) THEN dataKey
                            ELSE Get(models'[m].data, keyAttr)
             /\ rMap'.entries = (last'.key :> m) @@ rMap.entries
             /\ rMap'.entries[last'.key] = m]_vars

\* the factory built a model for a bag whose valid key was not registered,
\* beside an entry that was already there
C2_Witness ==
  /\ last.op = "getModel" /\ last.err = "none" /\ last.constructed = 1
  /\ last.ctor = "none" /\ last.key = Get(last.arg.bag, keyAttr)
  /\ rMap.entries[last.key] = last.result
  /\ Cardinality(DOMAIN rMap.entries) = 2

\* C3: a getModel call that raises leaves the registry's entries exactly as
\* they were before the call.
C3_FailedGetModelLeavesRegistry ==
  [][(last'.op = "getModel" /\ last'.err # "none") => rMap' = rMap]_vars

\* getModel raised at registration, after constructing, on a non-empty registry
C3_Witness ==
  /\ last.op = "getModel" /\ last.err = "InvalidRegistryKeyError"
  /\ last.constructed = 1
  /\ rMap.entries # EmptyBag

\* C4: set or register of a Model under a key that is already present raises an
\* error and changes nothing when allowOverrides is false, and succeeds and maps
\* the key to that Model when allowOverrides is true.
C4_OverridePolicy ==
  [][(last'.op \in {"set", "register"} /\ last'.value # 0
        /\ rMap.defined /\ last'.key \in DOMAIN rMap.entries)
       => IF rOptions.allowOverrides = DONT_ALLOW_OVERRIDES
          THEN last'.err = "Error" /\ rMap' = rMap
          ELSE /\ last'.err = "none"
               /\ rMap'.entries = (last'.key :> last'.value) @@ rMap.entries]_vars

\* a second Model was refused under a key that still maps to the first
C4_Witness ==
  /\ last.op \in {"set", "register"} /\ last.err = "Error"
  /\ last.value \in 1..Len(models)
  /\ last.key \in DOMAIN rMap.entries
  /\ rMap.entries[last.key] # last.value

\* C5: dispose never raises: the first call clears the map and drops the
\* factory, options and map references, and a call on a disposed registry is a
\* no-op.
C5_DisposeIdempotent ==
  last.op = "dispose"
    => /\ last.err = "none"
       /\ ~rMap.defined /\ rFactory = Undefined /\ ~rOptions.defined

\* C21: when dataHasValidKey(bag) has returned or raised: it returned true
\* exactly when getValidKeyIn(bag) returns a key, it returned false exactly
\* when getValidKeyIn(bag) raises the invalid-key error, which on a live
\* registry is when the value under keyAttr fails keyValidator, and for an
\* undefined bag it raised the TypeError.
C21_DataHasValidKey ==
  last.op = "dataHasValidKey"
    => LET k == getValidKeyIn(last.arg)
       IN /\ (last.err = "none" /\ last.returned) <=> k.err = "none"
          /\ (last.err = "none" /\ ~last.returned) <=> k.err = "InvalidRegistryKeyError"
          /\ (last.arg.defined /\ rKeyGetter /\ rOptions.defined)
               => /\ last.err = "none"
                  /\ last.returned = keyValidator(Get(last.arg.bag, keyAttr))
          /\ ~last.arg.defined => last.err = "TypeError"

\* dataHasValidKey() without a bag raised the TypeError on a live registry
\* that holds a model
C21_Witness ==
  /\ last.op = "dataHasValidKey" /\ ~last.arg.defined /\ last.err = "TypeError"
  /\ rMap.defined /\ rMap.entries # EmptyBag

\* the registry has not been disposed
Live == rMap.defined /\ rOptions.defined /\ rKeyGetter /\ rFactory # Undefined

\* a getModel call on a live registry whose bag holds a key that fails the key
\* validator, with a Constructor that constructs a Model or, without one, a
\* Factory that knows the bag's identity or a factory function that makes Models
InvalidKeyGetModel ==
  /\ last.op = "getModel" /\ last.arg.defined /\ Live
  /\ ~keyValidator(Get(last.arg.bag, keyAttr))
  /\ \/ last.ctor = "Model"
     \/ /\ last.ctor = "none" /\ rFactory = "Factory"
        /\ Get(last.arg.bag, "identity") \in DOMAIN constructorMap
     \/ last.ctor = "none" /\ rFactory \in {"fnModel", "fnFixedKey"}

\* C22 as stated: a getModel call whose bag holds a key that fails the key
\* validator has constructed a model, registered it under the key of the
\* model's own data and returned it; a call without data has raised the
\* TypeError.
C22_InvalidKeyNeverPropagates ==
  /\ InvalidKeyGetModel
       => /\ last.err = "none"
          /\ last.constructed = 1
          /\ last.result = Len(models)
          /\ last.key = Get(models[last.result].data, keyAttr)
          /\ Get(rMap.entries, last.key) = last.result
  /\ (last.op = "getModel" /\ ~last.arg.defined)
       => last.err = "TypeError" /\ last.constructed = 0

\* C22 amended: such a call has constructed a model and has gone on to
\* register it under the key of the model's own data. A model built on the bag
\* has a valid key when the bag held none and the constructor drew a uuid: the
\* call has registered it and returned it; when the bag held an invalid key the
\* model kept it, and the call has raised the invalid-key error and returned
\* nothing. A model the factory function made on a bag of its own has that
\* bag's key: the call has registered it and returned it, or, the key being
\* registered and overrides not allowed, has raised the duplicate-key error
\* and returned nothing. A call without data has raised the TypeError.
C22_InvalidKeyGetModel ==
  /\ InvalidKeyGetModel
       => IF ~HoldsArgument(last.ctor)
          THEN /\ last.constructed = 1
               /\ last.key = FixedKey
               /\ IF last.err = "none"
                  THEN /\ last.result = Len(models)
                       /\ last.key = Get(models[last.result].data, keyAttr)
                       /\ Get(rMap.entries, last.key) = last.result
                  ELSE /\ last.err = "Error"
                       /\ rOptions.allowOverrides = DONT_ALLOW_OVERRIDES
                       /\ last.result = NoResult
                       /\ last.key \in DOMAIN rMap.entries
          ELSE IF Get(last.arg.bag, keyAttr) = Undefined
          THEN /\ last.err = "none"
               /\ last.constructed = 1
               /\ last.result = Len(models)
               /\ last.key = Get(models[last.result].data, keyAttr)
               /\ keyValidator(last.key)
               /\ Get(rMap.entries, last.key) = last.result
          ELSE /\ last.err = "InvalidRegistryKeyError"
               /\ last.constructed = 1
               /\ last.result = NoResult
               /\ \A key \in DOMAIN rMap.entries : keyValidator(key)
  /\ (last.op = "getModel" /\ ~last.arg.defined)
       => last.err = "TypeError" /\ last.constructed = 0

\* getModel({uuid: 3}) has constructed a model and raised the invalid-key error
C22_Witness ==
  /\ InvalidKeyGetModel
  /\ Get(last.arg.bag, keyAttr) = "3"
  /\ last.err = "InvalidRegistryKeyError"

\* register(model) and unregister(model), without a key argument, each act on
\* the key of the model's current data and on no other entry; unregister
\* returns true exactly when the key had an entry
RegisterUnregisterByOwnKey ==
  /\ (last'.op = "register" /\ last'.keyArg = Undefined /\ last'.err = "none")
       => /\ last'.key = Get(models[last'.value].data, keyAttr)
          /\ rMap'.entries = (last'.key :> last'.value) @@ rMap.entries
          /\ rMap'.entries[last'.key] = last'.value
  /\ (last'.op = "unregister" /\ last'.keyArg = Undefined /\ last'.err = "none")
       => /\ last'.key = Get(models[last'.value].data, keyAttr)
          /\ rMap'.entries = Without(rMap.entries, last'.key)
          /\ last'.returned = (last'.key \in DOMAIN rMap.entries)

\* the entries after unregister(model) is called in the state register(model)
\* has just produced
UnregisteredAgain ==
  unregister(rMap'.entries, models[last'.value].data, Undefined).entries

\* C23 as stated: register(model) adds the model under the key of its current
\* data and unregister(model) removes the entry under that key, returning true
\* exactly when there was one; neither changes another entry; and unregister
\* straight after any register that returned gives back the map there was
\* before the register.
C23_RegisterUnregisterRestores ==
  [][/\ RegisterUnregisterByOwnKey
     /\ (last'.op = "register" /\ last'.keyArg = Undefined /\ last'.err = "none")
          => UnregisteredAgain = rMap.entries]_vars

\* C23 amended: as above, except that unregister straight after register gives
\* back the map there was before when the key had no entry before the
\* register; when register replaced an entry (allowOverrides), unregister
\* leaves the key without entry.
C23_RegisterUnregister ==
  [][/\ RegisterUnregisterByOwnKey
     /\ (last'.op = "register" /\ last'.keyArg = Undefined /\ last'.err = "none")
          => UnregisteredAgain = Without(rMap.entries, last'.key)]_vars

\* unregister(model) removed the model's entry, returned true and left the
\* other entry of the map in place
C23_Witness ==
  /\ last.op = "unregister" /\ last.keyArg = Undefined /\ last.err = "none"
  /\ last.returned
  /\ last.key \notin DOMAIN rMap.entries
  /\ rMap.entries # EmptyBag

\* C24: after every step of a registry that started with the default empty
\* map, every key of the map satisfies the key validator and every value is a
\* Model instance; a set or register whose key fails the validator or whose
\* value is no Model has raised an error and left the map as it was.
C24_MapHoldsValidKeysAndModels ==
  [][/\ \A key \in DOMAIN rMap'.entries :
          /\ keyValidator(key)
          /\ rMap'.entries[key] \in 1..Len(models')
     /\ (/\ last'.op \in {"set", "register"}
         /\ ~keyValidator(last'.key) \/ last'.value = 0)
          => last'.err # "none" /\ rMap' = rMap]_vars

\* set(key, value) with a valid, unused key and a value that is no Model has
\* raised the TypeError on a registry that holds a model
C24_Witness ==
  /\ last.op = "set" /\ last.value = 0 /\ keyValidator(last.key)
  /\ last.err = "TypeError"
  /\ rMap.defined /\ rMap.entries # EmptyBag
  /\ last.key \notin DOMAIN rMap.entries

\* ------------------------------------------------------- Model: operations
MaxUuids == 2

\* Model.has(property)
has(d, property) == property \in DOMAIN d

\* Model.get(property, defaultValue)
Model_get(d, property, defaultValue) ==
  IF has(d, property) THEN d[property] ELSE defaultValue

\* get uuid()
uuid(d) == Model_get(d, "uuid", Undefined)

\* Model.getModelIdentity()
getModelIdentity(d) == Model_get(d, "identity", Undefined)

\* Model.getPrevious(property)
getPrevious(prev, property) == Get(prev, property)

\* Model.hasChanged(property)
hasChanged(d, prev, property) == Get(prev, property) # Get(d, property)

\* hasChanged that asks every listed property to differ
Model_hasChanged_Every(d, prev, properties) ==
  \A i \in 1..Len(properties) : hasChanged(d, prev, properties[i])

\* Model.hasChanged(...properties): properties.some(prop => ...)
Model_hasChanged(d, prev, properties) ==
  \E i \in 1..Len(properties) : hasChanged(d, prev, properties[i])

\* this._previousData[property] = value; an own key that holds undefined reads
\* through getPrevious and hasChanged exactly as an absent key and is kept absent
Record(prev, property, value) ==
  IF value = Undefined THEN Without(prev, property) ELSE (property :> value) @@ prev

\* if (property): the argument was given and is not the empty string
Given(property) == property \notin {Undefined, ""}

\* Model.dispatchEvent(eventType, ...args): the event the listeners of eventType
\* receive; every listener is also handed eventType and the model itself
dispatchEvent(eventType, args) == <<[type |-> eventType, args |-> args]>>

\* dispatchChange that dispatches the generic event first
dispatchChange_GenericFirst(property, newValue, oldValue) ==
  dispatchEvent("change", <<>>) \o
    (IF Given(property)
     THEN dispatchEvent("change " \o property, <<newValue, oldValue>>)
     ELSE <<>>)

\* dispatchChange that hands the values to the generic event as well
dispatchChange_ValuesOnBoth(property, newValue, oldValue) ==
  (IF Given(property)
   THEN dispatchEvent("change " \o property, <<newValue, oldValue>>)
   ELSE <<>>) \o dispatchEvent("change", <<newValue, oldValue>>)

\* Model.dispatchChange(property, newValue, oldValue): the events, in order
dispatchChange(property, newValue, oldValue) ==
  (IF Given(property)
   THEN dispatchEvent("change " \o property, <<newValue, oldValue>>)
   ELSE <<>>) \o dispatchEvent("change", <<>>)

\* if (unsetIfFalsy && !value) value = undefined: the value set goes on with
valueToSet(value, unsetIfFalsy) ==
  IF unsetIfFalsy /\ Falsy(value) THEN Undefined ELSE value

\* set that never records the previous value
Model_set_NoRecord(d, prev, property, value, setSilent, unsetIfFalsy) ==
  LET previous == Get(d, property)
      v == valueToSet(value, unsetIfFalsy)
  IN [data |-> IF v = previous THEN d
               ELSE IF TypeOf(v) = "undefined" THEN Without(d, property)
               ELSE (property :> v) @@ d,
      previousData |-> prev,
      events |-> IF v # previous /\ ~setSilent
                 THEN dispatchChange(property, v, previous) ELSE <<>>]

\* set that records the previous value only when the value changes
Model_set_RecordOnChange(d, prev, property, value, setSilent, unsetIfFalsy) ==
  LET previous == Get(d, property)
      v == valueToSet(value, unsetIfFalsy)
  IN [data |-> IF v = previous THEN d
               ELSE IF TypeOf(v) = "undefined" THEN Without(d, property)
               ELSE (property :> v) @@ d,
      previousData |-> IF v = previous THEN prev ELSE Record(prev, property, previous),
      events |-> IF v # previous /\ ~setSilent
                 THEN dispatchChange(property, v, previous) ELSE <<>>]

\* set that dispatches whether or not the value differs
Model_set_NotifyUnchanged(d, prev, property, value, setSilent, unsetIfFalsy) ==
  LET previous == Get(d, property)
      v == valueToSet(value, unsetIfFalsy)
  IN [data |-> IF v = previous THEN d
               ELSE IF TypeOf(v) = "undefined" THEN Without(d, property)
               ELSE (property :> v) @@ d,
      previousData |-> Record(prev, property, previous),
      events |-> IF ~setSilent THEN dispatchChange(property, v, previous) ELSE <<>>]

\* Model.set(property, value, {setSilent, unsetIfFalsy}): [data, previousData, events]
Model_set(d, prev, property, value, setSilent, unsetIfFalsy) ==
  LET previous == Get(d, property)
      v == valueToSet(value, unsetIfFalsy)
  IN [data |-> IF v = previous THEN d
               ELSE IF TypeOf(v) = "undefined" THEN Without(d, property)
               ELSE (property :> v) @@ d,
      previousData |-> Record(prev, property, previous),
      events |-> IF v # previous /\ ~setSilent
                 THEN dispatchChange(property, v, previous) ELSE <<>>]

\* Model.unset(property, flags)
Model_unset(d, prev, property, setSilent, unsetIfFalsy) ==
  Model_set(d, prev, property, Undefined, setSilent, unsetIfFalsy)

\* assignData that notifies whether or not a value differs
Model_assignData_AlwaysNotify(d, prev, newData, setSilent) ==
  LET keys == {k \in DOMAIN prev \cup DOMAIN newData :
                 k \in DOMAIN newData => Get(d, k) # Undefined}
  IN [data |-> ObjectAssign(d, newData),
      previousData |-> [k \in keys |-> IF k \in DOMAIN newData THEN d[k] ELSE prev[k]],
      events |-> IF ~setSilent
                 THEN dispatchChange(Undefined, Undefined, Undefined) ELSE <<>>]

\* Model.assignData(newData, {setSilent}): [data, previousData, events]
Model_assignData(d, prev, newData, setSilent) ==
  LET didChange == \E property \in DOMAIN newData : newData[property] # Get(d, property)
      keys == {k \in DOMAIN prev \cup DOMAIN newData :
                 k \in DOMAIN newData => Get(d, k) # Undefined}
  IN [data |-> ObjectAssign(d, newData),
      previousData |-> [k \in keys |-> IF k \in DOMAIN newData THEN d[k] ELSE prev[k]],
      events |-> IF ~setSilent /\ didChange
                 THEN dispatchChange(Undefined, Undefined, Undefined) ELSE <<>>]

\* the bag resetData hands to assignData
resetBag(cls, d, defaultData, fresh) ==
  LET kept == [uuid |-> Get(d, "uuid"), identity |-> Get(d, "identity")]
  IN ObjectAssign(withDefaultData(kept, getDefaults(cls, fresh)), parseData(defaultData))

\* resetData that sets the new bag property by property
Model_resetData_PerProperty(cls, d, prev, defaultData, setSilent, fresh) ==
  LET bag == resetBag(cls, d, defaultData, fresh)
      o == Model_assignData(EmptyBag, prev, bag, setSilent)
  IN [o EXCEPT !.events =
        IF setSilent THEN <<>>
        ELSE dispatchChange("uuid", bag["uuid"], Undefined) \o o.events]

\* Model.resetData(defaultData, flags): [data, previousData, events]
Model_resetData(cls, d, prev, defaultData, setSilent, fresh) ==
  Model_assignData(EmptyBag, prev, resetBag(cls, d, defaultData, fresh), setSilent)

\* ---------------------------------------------------------- Model: actions
Props == {"uuid", "width", ""}
SetValues == {"0", "10"}
InitBags == {EmptyBag, [width |-> "10"]}
Bags == {EmptyBag, [width |-> "10"], [uuid |-> "10"], [identity |-> ModelIdentity],
         ("" :> "0")}

\* the arguments of hasChanged: no property, one, two
PropertyLists == {<<>>, <<"width">>, <<"">>, <<"width", "">>, <<"", "uuid">>}

\* no registry is observed
NoRegistry ==
  /\ models = <<>>
  /\ rMap = [own |-> TRUE, defined |-> TRUE, entries |-> EmptyBag]
  /\ rFactory = "Factory"
  /\ rOptions = [defined |-> TRUE, allowOverrides |-> DONT_ALLOW_OVERRIDES]
  /\ rKeyGetter = TRUE
  /\ last = Idle
  /\ issued = EmptyBag

\* new Rect(data)
ModelInit ==
  /\ NoRegistry
  /\ NoCopy
  /\ NoFactory
  /\ NoMultiton
  /\ NoNested
  /\ NoListeners
  /\ \E bag \in InitBags : mData = ModelConstructor("Rect", bag, FreshUuid(1))
  /\ mPreviousData = EmptyBag
  /\ mCall = ModelIdle
  /\ mCreated = [uuid |-> Get(mData, "uuid"), identity |-> Get(mData, "identity")]
  /\ mDrawn = 1

\* model.set(property, value, {setSilent, unsetIfFalsy})
ModelSet(property, value, setSilent, unsetIfFalsy) ==
  LET o == Model_set(mData, mPreviousData, property, value, setSilent, unsetIfFalsy)
  IN /\ mCall = ModelIdle
     /\ mData' = o.data
     /\ mPreviousData' = o.previousData
     /\ mCall' = [ModelIdle EXCEPT !.op = "set", !.property = property, !.value = value,
                                   !.setSilent = setSilent, !.unsetIfFalsy = unsetIfFalsy,
                                   !.events = o.events]
     /\ UNCHANGED <<mCreated, mDrawn, outsideModel>>

\* model.unset(property, {setSilent})
ModelUnset(property, setSilent) ==
  LET o == Model_unset(mData, mPreviousData, property, setSilent, FALSE)
  IN /\ mCall = ModelIdle
     /\ mData' = o.data
     /\ mPreviousData' = o.previousData
     /\ mCall' = [ModelIdle EXCEPT !.op = "unset", !.property = property,
                                   !.setSilent = setSilent, !.events = o.events]
     /\ UNCHANGED <<mCreated, mDrawn, outsideModel>>

\* model.assignData(newData, {setSilent})
ModelAssignData(newData, setSilent) ==
  LET o == Model_assignData(mData, mPreviousData, newData, setSilent)
  IN /\ mCall = ModelIdle
     /\ mData' = o.data
     /\ mPreviousData' = o.previousData
     /\ mCall' = [ModelIdle EXCEPT !.op = "assignData", !.bag = newData,
                                   !.setSilent = setSilent, !.events = o.events]
     /\ UNCHANGED <<mCreated, mDrawn, outsideModel>>

\* model.resetData(defaultData, {setSilent})
ModelResetData(defaultData, setSilent) ==
  LET fresh == FreshUuid(mDrawn + 1)
      o == Model_resetData("Rect", mData, mPreviousData, defaultData, setSilent, fresh)
      kept == Get(o.data, "uuid") = fresh
  IN /\ mCall = ModelIdle
     /\ kept => mDrawn < MaxUuids
     /\ mData' = o.data
     /\ mPreviousData' = o.previousData
     /\ mDrawn' = IF kept THEN mDrawn + 1 ELSE mDrawn
     /\ mCall' = [ModelIdle EXCEPT !.op = "resetData", !.bag = defaultData,
                                   !.setSilent = setSilent, !.events = o.events]
     /\ UNCHANGED <<mCreated, outsideModel>>

\* model.hasChanged(...properties)
ModelHasChanged(properties) ==
  /\ mCall = ModelIdle
  /\ mCall' = [ModelIdle EXCEPT !.op = "hasChanged", !.properties = properties,
                                !.returned = Model_hasChanged(mData, mPreviousData,
                                                              properties)]
  /\ UNCHANGED <<mData, mPreviousData, mCreated, mDrawn, outsideModel>>

\* model.uuid = value: the class defines uuid with a getter and no setter
ModelAssignUuid(value) ==
  /\ mCall = ModelIdle
  /\ mCall' = [ModelIdle EXCEPT !.op = "uuid=", !.property = "uuid", !.value = value,
                                !.err = "TypeError"]
  /\ UNCHANGED <<mData, mPreviousData, mCreated, mDrawn, outsideModel>>

\* the call has returned or raised and the caller has seen the outcome
ModelReturn ==
  /\ mCall # ModelIdle
  /\ mCall' = ModelIdle
  /\ UNCHANGED <<mData, mPreviousData, mCreated, mDrawn, outsideModel>>

ModelNext ==
  \/ \E property \in Props, value \in SetValues, setSilent \in BOOLEAN,
        unsetIfFalsy \in BOOLEAN : ModelSet(property, value, setSilent, unsetIfFalsy)
  \/ \E property \in Props, setSilent \in BOOLEAN : ModelUnset(property, setSilent)
  \/ \E newData \in Bags, setSilent \in BOOLEAN : ModelAssignData(newData, setSilent)
  \/ \E defaultData \in Bags, setSilent \in BOOLEAN : ModelResetData(defaultData, setSilent)
  \/ \E properties \in PropertyLists : ModelHasChanged(properties)
  \/ ModelAssignUuid("10")
  \/ ModelReturn

SpecModel == ModelInit /\ [][ModelNext]_vars

\* ------------------------------------------------------------ Model: claims

\* the call names uuid or identity
NamesUuidOrIdentity(c) ==
  \/ c.op = "uuid="
  \/ c.op \in {"set", "unset"} /\ c.property \in {"uuid", "identity"}
  \/ c.op \in {"assignData", "resetData"} /\ DOMAIN c.bag \cap {"uuid", "identity"} # {}

\* C6: a model's uuid and identity always equal their values at construction,
\* and every call that assigns to the uuid accessor or names uuid or identity in
\* set, unset, assignData or resetData raises an error.
C6_UuidIdentityImmutable ==
  /\ uuid(mData) = mCreated.uuid
  /\ getModelIdentity(mData) = mCreated.identity
  /\ NamesUuidOrIdentity(mCall) => mCall.err # "none"

\* the keys of the subtype's defaults
DefaultKeys == DOMAIN getDefaults("Rect", Undefined)

\* C7: after resetData(d) the uuid and the identity are what they were before
\* the call, every other key holds d's value if d defines it and the subtype's
\* default otherwise, and no key outside d and the defaults is present.
C7_ResetDataPostcondition ==
  [][mCall'.op = "resetData"
       => LET d == mCall'.bag
              others == DOMAIN mData' \ {"uuid", "identity"}
          IN /\ uuid(mData') = uuid(mData)
             /\ getModelIdentity(mData') = getModelIdentity(mData)
             /\ others = (DOMAIN d \cup DefaultKeys) \ {"uuid", "identity"}
             /\ \A k \in others :
                  mData'[k] = IF k \in DOMAIN d THEN d[k]
                              ELSE getDefaults("Rect", Undefined)[k]]_vars

\* how many of the events have the type
Count(events, type) == Cardinality({i \in DOMAIN events : events[i].type = type})

\* C8 as stated: a set with default flags that changes p fires 'change p' once
\* and 'change' once, each reporting the new value and the value held before; a
\* set to the current value fires nothing; a silent set fires nothing.
C8_ChangeEventsBothReportValues ==
  [][mCall'.op = "set"
       => LET p == mCall'.property
              v == mCall'.value
              c == Get(mData, p)
              ev == mCall'.events
          IN /\ (~mCall'.setSilent /\ ~mCall'.unsetIfFalsy /\ v # c)
                  => /\ Len(ev) = 2
                     /\ Count(ev, "change " \o p) = 1
                     /\ Count(ev, "change") = 1
                     /\ \A i \in DOMAIN ev : ev[i].args = <<v, c>>
             /\ (~mCall'.unsetIfFalsy /\ v = c) => ev = <<>>
             /\ mCall'.setSilent => ev = <<>>]_vars

\* C8: a set with default flags that changes p fires, for a non-empty name p,
\* 'change p' once, reporting the new value and the value held before, and then
\* the generic 'change' once, which reports no values; for the empty name only
\* the generic event fires; a set to the current value fires nothing; a silent
\* set fires nothing.
C8_ChangeEvents ==
  [][mCall'.op = "set"
       => LET p == mCall'.property
              v == mCall'.value
              c == Get(mData, p)
              ev == mCall'.events
          IN /\ (~mCall'.setSilent /\ ~mCall'.unsetIfFalsy /\ v # c)
                  => ev = (IF p # ""
                           THEN <<[type |-> "change " \o p, args |-> <<v, c>>]>>
                           ELSE <<>>) \o <<[type |-> "change", args |-> <<>>]>>
             /\ (~mCall'.unsetIfFalsy /\ v = c) => ev = <<>>
             /\ mCall'.setSilent => ev = <<>>]_vars

\* set('width', '10') with default flags on a width of 0 has fired its two events
C8_Witness ==
  /\ mCall.op = "set" /\ ~mCall.setSilent /\ ~mCall.unsetIfFalsy
  /\ mCall.property = "width" /\ mCall.value = "10"
  /\ Len(mCall.events) = 2
  /\ mCall.events[1] = [type |-> "change width", args |-> <<"10", "0">>]

\* the call mutates p
Mutates(c, p) ==
  \/ c.op \in {"set", "unset"} /\ c.property = p
  \/ c.op = "assignData" /\ p \in DOMAIN c.bag
  \/ c.op = "resetData"

\* C9: a set of p to a value that differs from the current value c leaves
\* getPrevious(p) = c and hasChanged(p) true; both stay as they are through every
\* call that does not mutate p; a set of p to the value it holds leaves
\* hasChanged(p) false.
C9_PreviousAndHasChanged ==
  [][\A p \in Props :
       LET c == Get(mData, p)
           v == valueToSet(mCall'.value, mCall'.unsetIfFalsy)
           isSet == mCall'.op = "set" /\ mCall'.property = p
       IN /\ (isSet /\ v # c)
               => /\ getPrevious(mPreviousData', p) = c
                  /\ hasChanged(mData', mPreviousData', p)
          /\ (isSet /\ v = c) => ~hasChanged(mData', mPreviousData', p)
          /\ ~Mutates(mCall', p)
               => /\ getPrevious(mPreviousData', p) = getPrevious(mPreviousData, p)
                  /\ hasChanged(mData', mPreviousData', p)
                       = hasChanged(mData, mPreviousData, p)]_vars

\* width went from 0 to 10 by a set: the previous value is 0 and it has changed
C9_Witness ==
  /\ mCall.op = "set" /\ mCall.property = "width" /\ mCall.value = "10"
  /\ Get(mData, "width") = "10"
  /\ getPrevious(mPreviousData, "width") = "0"
  /\ hasChanged(mData, mPreviousData, "width")

\* C10 as stated: getPrevious(p) is undefined at first, a set or unset that
\* changes p makes it the value p held before, and a set or unset that leaves p
\* as it is leaves getPrevious(p) as it is: it is the last value of p distinct
\* from the current one.
C10_PreviousIsLastDistinct ==
  /\ \A p \in Props : getPrevious(mPreviousData, p) = Undefined
  /\ [][\A p \in Props :
          (mCall'.op \in {"set", "unset"} /\ mCall'.property = p)
            => getPrevious(mPreviousData', p) =
                 IF Get(mData', p) # Get(mData, p) THEN Get(mData, p)
                 ELSE getPrevious(mPreviousData, p)]_vars

\* C10: getPrevious(p) is undefined at first, every set or unset of p makes it
\* the value p held just before that call, whether or not the call changed p,
\* and no set or unset of another property changes it.
C10_PreviousIsValueBeforeLastSet ==
  /\ \A p \in Props : getPrevious(mPreviousData, p) = Undefined
  /\ [][\A p \in Props :
          mCall'.op \in {"set", "unset"}
            => getPrevious(mPreviousData', p) =
                 IF mCall'.property = p THEN Get(mData, p)
                 ELSE getPrevious(mPreviousData, p)]_vars

\* a set of width to the value it already held: the previous value recorded is
\* that same value
C10_Witness ==
  /\ mCall.op = "set" /\ mCall.property = "width" /\ mCall.value = "10"
  /\ ~mCall.unsetIfFalsy /\ ~mCall.setSilent /\ mCall.events = <<>>
  /\ Get(mData, "width") = "10"
  /\ getPrevious(mPreviousData, "width") = "10"

\* C11: assignData(newData) writes every key of newData and no other, records
\* for each of those keys the value it held before the call as its previous
\* value, and fires exactly the generic 'change' event, once, when setSilent is
\* off and some written value differs from the value it replaces, and nothing
\* otherwise.
C11_AssignData ==
  [][mCall'.op = "assignData"
       => LET newData == mCall'.bag
              differs == \E k \in DOMAIN newData : newData[k] # Get(mData, k)
          IN /\ \A k \in DOMAIN newData :
                  /\ has(mData', k) /\ mData'[k] = newData[k]
                  /\ getPrevious(mPreviousData', k) = Get(mData, k)
             /\ \A k \in (DOMAIN mData \cup DOMAIN mData') \ DOMAIN newData :
                  Get(mData', k) = Get(mData, k)
             /\ mCall'.events = IF ~mCall'.setSilent /\ differs
                                THEN <<[type |-> "change", args |-> <<>>]>>
                                ELSE <<>>]_vars

\* assignData({width: '10'}) on a width of 0 has fired the one generic event
C11_Witness ==
  /\ mCall.op = "assignData" /\ ~mCall.setSilent
  /\ mCall.bag = [width |-> "10"]
  /\ getPrevious(mPreviousData, "width") = "0"
  /\ Get(mData, "width") = "10"
  /\ mCall.events = <<[type |-> "change", args |-> <<>>]>>

\* C12: a resetData call with setSilent off fires exactly the generic 'change'
\* event, once, and no 'change p' event, however many properties it replaces;
\* with setSilent on it fires nothing.
C12_ResetDataOneEvent ==
  [][mCall'.op = "resetData"
       => mCall'.events = IF mCall'.setSilent THEN <<>>
                          ELSE <<[type |-> "change", args |-> <<>>]>>]_vars

\* a resetData that replaced several properties has fired the one generic event
C12_Witness ==
  /\ mCall.op = "resetData" /\ ~mCall.setSilent
  /\ mCall.bag = [width |-> "10"]
  /\ Get(mData, "width") = "10"
  /\ ~has(mData, "")
  /\ uuid(mData) # mCreated.uuid
  /\ mCall.events = <<[type |-> "change", args |-> <<>>]>>

\* the value recorded as previous for p; undefined when none is recorded
Recorded(p) == IF p \in DOMAIN mPreviousData THEN mPreviousData[p] ELSE Undefined

\* C31: hasChanged(p1, ..., pn) has returned true exactly when for some listed
\* property the current value differs from the recorded previous value, a
\* property with no recorded previous value being compared against undefined;
\* so on a model with no recorded previous values, as a freshly constructed
\* one is, hasChanged(p) has returned true exactly for a p that holds a value.
C31_HasChanged ==
  mCall.op = "hasChanged"
    => LET ps == mCall.properties
       IN /\ mCall.returned = (\E i \in 1..Len(ps) : Get(mData, ps[i]) # Recorded(ps[i]))
          /\ (mPreviousData = EmptyBag /\ Len(ps) = 1)
               => mCall.returned = (ps[1] \in DOMAIN mData)

\* on a freshly constructed Rect hasChanged('width', '') has returned true
C31_Witness ==
  /\ mCall.op = "hasChanged"
  /\ mCall.properties = <<"width", "">>
  /\ mPreviousData = EmptyBag
  /\ mDrawn = 1
  /\ "" \notin DOMAIN mData
  /\ mCall.returned

\* C32: a resetData step leaves, for every key p it has written (every key of
\* the data bag after it), getPrevious(p) equal to the value p held before
\* the step.
C32_ResetDataRecordsPrevious ==
  [][(mCall.op = "idle" /\ mCall'.op = "resetData")
       => \A p \in DOMAIN mData' :
            getPrevious(mPreviousData', p) = Get(mData, p)]_vars

\* -------------------------------------------------------------- Model.copy
\* For copy() a string is a sequence of atoms, pieces of text without a quote;
\* an atom is UUID v4 shaped or it is not.  A data bag is a tree: a function
\* from paths (sequences of keys) to nodes; an object node carries the identity
\* of the JavaScript object, a leaf carries a string or a number.
V4Atoms == {"A", "B"}

\* UUID_V4_REGEXP matches the atom: the given ones and the ones uuidV4() returns
IsV4(atom) == atom \in V4Atoms \cup {FreshUuid(n) : n \in 1..3}

Leaf(kind, atoms) == [kind |-> kind, atoms |-> atoms, id |-> 0]
Obj(id) == [kind |-> "object", atoms |-> <<>>, id |-> id]
LeafOf(v) == Leaf(TypeOf(v), <<v>>)

\* the keys _withDefaultData goes through, in the order of _getDefaults
DefaultKeyOrder(cls) ==
  IF cls = "Rect" THEN <<"identity", "uuid", "x", "y", "width", "height">>
  ELSE <<"identity", "uuid">>

\* keys, then those of more that keys lacks
Appended(keys, more) ==
  keys \o SelectSeq(more, LAMBDA k : \A i \in DOMAIN keys : keys[i] # k)

\* the key order of a model constructed without data, its other members set
\* later: the defaults come first
LiveKeys(cls) == Appended(DefaultKeyOrder(cls), <<"width", "ref", "a", "b", "name">>)

\* the key order of a model constructed as new Constructor({a, b, ref, width}):
\* the constructor adds its defaults after the members it was given
GivenKeys(cls) == Appended(Appended(<<"a", "b", "ref", "width">>, DefaultKeyOrder(cls)),
                           <<"name">>)

\* the paths under the keys, in order; a nested bag holds uuid, then name
RECURSIVE PathsUnder(_)
PathsUnder(keys) ==
  IF keys = <<>> THEN <<>>
  ELSE << <<Head(keys)>>, <<Head(keys), "uuid">>, <<Head(keys), "name">> >>
         \o PathsUnder(Tail(keys))

\* the order in which JSON.stringify writes the members of an object whose
\* keys were inserted in the order keys
PathOrder(keys) == << <<>> >> \o PathsUnder(keys)

\* JSON.stringify(data): the members in insertion order; the text holds keys,
\* kinds and characters, and nothing of the identity of the objects
JSONstringify(tree, keys) ==
  LET present == SelectSeq(PathOrder(keys), LAMBDA path : path \in DOMAIN tree)
  IN [i \in 1..Len(present) |->
        [path |-> present[i], kind |-> tree[present[i]].kind,
         atoms |-> tree[present[i]].atoms]]

\* a match of every string member, whatever its key
MatchUuidAttr_AnyKey(text) ==
  SelectSeq(text, LAMBDA m : m.kind = "string")

\* jsonStr.match(UUID_ATTR_REGEXP): the members "uuid":"..." in text order
MatchUuidAttr(text) ==
  SelectSeq(text, LAMBDA m : /\ m.kind = "string"
                             /\ Len(m.path) > 0
                             /\ m.path[Len(m.path)] = "uuid")

\* matchStr.match(UUID_V4_REGEXP)[0]: the first UUID in the string, if any
FirstV4(atoms) ==
  LET at == {i \in DOMAIN atoms : IsV4(atoms[i])}
  IN IF at = {} THEN Undefined
     ELSE atoms[CHOOSE i \in at : \A j \in at : i <= j]

\* the reduce that builds uuidMap: one uuidV4() per distinct UUID matched
RECURSIVE uuidMapOf(_, _)
uuidMapOf(matches, acc) ==
  IF matches = <<>> THEN acc
  ELSE LET current == FirstV4(Head(matches).atoms)
       IN IF current = Undefined \/ current \in DOMAIN acc
          THEN uuidMapOf(Tail(matches), acc)
          ELSE uuidMapOf(Tail(matches),
                         (current :> FreshUuid(Cardinality(DOMAIN acc) + 1)) @@ acc)

Substitute(atoms, uuidMap) ==
  [i \in DOMAIN atoms |-> IF atoms[i] \in DOMAIN uuidMap THEN uuidMap[atoms[i]]
                          ELSE atoms[i]]

\* a replacement that gives every occurrence a uuid of its own
replaceUuids_PerOccurrence(text, uuidMap) ==
  [i \in DOMAIN text |->
     [path |-> text[i].path, kind |-> text[i].kind,
      atoms |-> [j \in DOMAIN text[i].atoms |->
                   IF text[i].atoms[j] \in DOMAIN uuidMap
                   THEN uuidMap[text[i].atoms[j]] \o ToString(i)
                   ELSE text[i].atoms[j]]]]

\* a replacement that rewrites only the values of uuid keys
replaceUuids_UuidKeysOnly(text, uuidMap) ==
  [i \in DOMAIN text |->
     [path |-> text[i].path, kind |-> text[i].kind,
      atoms |-> IF Len(text[i].path) > 0 /\ text[i].path[Len(text[i].path)] = "uuid"
                THEN Substitute(text[i].atoms, uuidMap) ELSE text[i].atoms]]

\* the reduce of split(oldUuid).join(newUuid) over the whole text, keys included
replaceUuids(text, uuidMap) ==
  [i \in DOMAIN text |->
     [path |-> Substitute(text[i].path, uuidMap), kind |-> text[i].kind,
      atoms |-> Substitute(text[i].atoms, uuidMap)]]

\* the greatest object identity in the tree
MaxId(tree) ==
  LET ids == {tree[path].id : path \in DOMAIN tree}
  IN CHOOSE n \in ids : \A k \in ids : k <= n

\* JSON.parse(jsonStr): every object of the text is a new object
JSONparse(text, lastId) ==
  [path \in {text[i].path : i \in DOMAIN text} |->
     LET i == CHOOSE i \in DOMAIN text : text[i].path = path
     IN IF text[i].kind = "object"
        THEN Obj(lastId + Cardinality({j \in 1..i : text[j].kind = "object"}))
        ELSE Leaf(text[i].kind, text[i].atoms)]

\* new Constructor(data): _withDefaultData on the root object of the tree
ConstructTree(cls, tree, fresh) ==
  LET defaults == getDefaults(cls, fresh)
      missing == {k \in DOMAIN defaults :
                    shouldSetDefaultValue(k, IF <<k>> \in DOMAIN tree
                                             THEN "defined" ELSE Undefined)}
  IN [path \in DOMAIN tree \cup {<<k>> : k \in missing} |->
        IF path \in DOMAIN tree THEN tree[path] ELSE LeafOf(defaults[path[1]])]

\* the root keys of the text, in text order
RootKeys(text) ==
  LET roots == SelectSeq(text, LAMBDA m : Len(m.path) = 1)
  IN [i \in 1..Len(roots) |-> roots[i].path[1]]

\* copy that hands the data reference itself to the constructor
copy_SameReference(cls, tree, keys) ==
  [made |-> TRUE, cls |-> cls, data |-> ConstructTree(cls, tree, FreshUuid(1)),
   keys |-> keys]

\* Model.copy(): [made, cls, data, keys]; JSON.parse inserts the keys in text
\* order and the constructor adds the defaults the text lacks after them
copy(cls, tree, keys) ==
  LET jsonStr == JSONstringify(tree, keys)
      uuidMap == uuidMapOf(MatchUuidAttr(jsonStr), EmptyBag)
      replaced == replaceUuids(jsonStr, uuidMap)
      fresh == FreshUuid(Cardinality(DOMAIN uuidMap) + 1)
  IN [made |-> TRUE, cls |-> cls,
      data |-> ConstructTree(cls, JSONparse(replaced, MaxId(tree)), fresh),
      keys |-> Appended(Appended(RootKeys(replaced), DefaultKeyOrder(cls)), keys)]

\* object[key] = value, seen through every tree that holds the object
WriteTree(tree, id, key, leaf) ==
  LET hits == {q \in DOMAIN tree : tree[q].kind = "object" /\ tree[q].id = id}
      written == {Append(q, key) : q \in hits}
  IN [path \in DOMAIN tree \cup written |->
        IF path \in written THEN leaf ELSE tree[path]]

\* ---------------------------------------------------- Model.copy: actions
RootUuids == {Undefined, "A", "id7"}
SubUuids == {Undefined, "A", "B"}
Refs == {<<>>, <<"A">>, <<"B">>, <<"ref:", "A">>, <<"id7">>}
Widths == {Undefined, "10"}
Classes == {"Model", "Rect"}
ObjectPaths == {<<>>, <<"a">>}

\* the members a choice contributes to the tree
Member(path, node, present) ==
  IF present THEN path :> node ELSE EmptyTree

\* the data of a live model: the defaults its constructor set, of which uuid
\* and width may have been replaced or unset since, a foreign reference ref and
\* two nested bags a and b: {identity, ..., uuid?, width?, ref?, a?: {uuid}, b?: {uuid}}
TreeOf(cls, u, w, ref, au, bu) ==
  LET defaults == getDefaults(cls, Undefined)
  IN
  (<<>> :> Obj(1))
    @@ [path \in {<<k>> : k \in DOMAIN defaults \ {"uuid", "width"}} |->
          LeafOf(defaults[path[1]])]
    @@ Member(<<"uuid">>, LeafOf(u), u # Undefined)
    @@ Member(<<"width">>, LeafOf(w), w # Undefined)
    @@ Member(<<"ref">>, Leaf("string", ref), ref # <<>>)
    @@ Member(<<"a">>, Obj(2), au # Undefined)
    @@ Member(<<"a", "uuid">>, LeafOf(au), au # Undefined)
    @@ Member(<<"b">>, Obj(3), bu # Undefined)
    @@ Member(<<"b", "uuid">>, LeafOf(bu), bu # Undefined)

CopyInit ==
  /\ NoRegistry
  /\ NoModel
  /\ NoFactory
  /\ NoMultiton
  /\ NoNested
  /\ NoListeners
  /\ cCls \in Classes
  /\ \E u \in RootUuids, w \in Widths, ref \in Refs, au \in SubUuids,
        bu \in {Undefined, "B"} : cData = TreeOf(cCls, u, w, ref, au, bu)
  /\ cKeys \in {LiveKeys(cCls), GivenKeys(cCls)}
  /\ cCopy = [made |-> FALSE, cls |-> Undefined, data |-> EmptyTree, keys |-> <<>>]
  /\ cCall = [op |-> "idle", target |-> Undefined, path |-> <<>>]

\* model.copy()
ModelCopy ==
  /\ ~cCopy.made
  /\ cCopy' = copy(cCls, cData, cKeys)
  /\ cCall' = [op |-> "copy", target |-> "original", path |-> <<>>]
  /\ UNCHANGED <<cCls, cData, cKeys, outsideCopy>>

\* a write of name = 'z' into an object of the original or of the copy, through
\* its data reference; every holder of that object sees it
WriteName(target, path) ==
  LET tree == IF target = "original" THEN cData ELSE cCopy.data
      leaf == Leaf("string", <<"z">>)
  IN /\ cCopy.made
     /\ path \in DOMAIN tree
     /\ Append(path, "name") \notin DOMAIN tree
     /\ cData' = WriteTree(cData, tree[path].id, "name", leaf)
     /\ cCopy' = [cCopy EXCEPT !.data = WriteTree(@, tree[path].id, "name", leaf)]
     /\ cCall' = [op |-> "write", target |-> target, path |-> path]
     /\ UNCHANGED <<cCls, cKeys, outsideCopy>>

CopyNext ==
  \/ ModelCopy
  \/ \E target \in {"original", "copy"}, path \in ObjectPaths : WriteName(target, path)

SpecCopy == CopyInit /\ [][CopyNext]_vars

\* ----------------------------------------------------- Model.copy: claims

\* the paths of the string values stored under a key named uuid
UuidPaths(tree) ==
  {path \in DOMAIN tree : /\ Len(path) > 0
                          /\ path[Len(path)] = "uuid"
                          /\ tree[path].kind = "string"}

\* the string is one UUID
IsUuidString(atoms) == Len(atoms) = 1 /\ IsV4(atoms[1])

\* C13: when copy() has returned, any two uuid keys of the original that hold
\* the same UUID hold, in the copy, one and the same uuid, and it differs from
\* the original's.
C13_SharedUuidPreserved ==
  cCall.op = "copy"
    => \A p \in UuidPaths(cData), q \in UuidPaths(cData) :
         (IsUuidString(cData[p].atoms) /\ cData[p].atoms = cData[q].atoms)
           => /\ p \in DOMAIN cCopy.data /\ q \in DOMAIN cCopy.data
              /\ cCopy.data[p].atoms = cCopy.data[q].atoms
              /\ cCopy.data[p].atoms # cData[p].atoms

\* the sibling bags a and b both held B: in the copy both hold one new uuid
C13_Witness ==
  /\ cCall.op = "copy"
  /\ <<"a", "uuid">> \in DOMAIN cData /\ <<"b", "uuid">> \in DOMAIN cData
  /\ cData[<<"a", "uuid">>].atoms = <<"B">> /\ cData[<<"b", "uuid">>].atoms = <<"B">>
  /\ cCopy.data[<<"a", "uuid">>].atoms = cCopy.data[<<"b", "uuid">>].atoms
  /\ cCopy.data[<<"a", "uuid">>].atoms # <<"B">>

\* a string with every UUID in it masked
Masked(atoms) == [i \in DOMAIN atoms |-> IF IsV4(atoms[i]) THEN "*" ELSE atoms[i]]

\* the paths of a bag that are not uuid keys
PlainPaths(tree) ==
  {path \in DOMAIN tree : Len(path) = 0 \/ path[Len(path)] # "uuid"}

\* the two values are equal but for the UUIDs in them
SameButUuids(n1, n2) == n1.kind = n2.kind /\ Masked(n1.atoms) = Masked(n2.atoms)

\* the objects a bag is made of
ObjectsOf(tree) == {tree[path].id : path \in {q \in DOMAIN tree : tree[q].kind = "object"}}

\* a write to one of the two models leaves the other's bag as it was
IndependentWrites ==
  /\ (cCall'.op = "write" /\ cCall'.target = "original") => cCopy' = cCopy
  /\ (cCall'.op = "write" /\ cCall'.target = "copy") => cData' = cData

\* C14 as stated: copy() returns an instance of the same subtype whose bag has
\* the keys and the values of the original's but for uuid values, shares no
\* object with it, and the original's bag is unchanged; a later write to
\* either is not visible in the other.
C14_CopyValueEqual ==
  [][/\ cCall'.op = "copy"
          => /\ cCopy'.made /\ cCopy'.cls = cCls
             /\ PlainPaths(cCopy'.data) = PlainPaths(cData)
             /\ \A path \in PlainPaths(cData) :
                  SameButUuids(cCopy'.data[path], cData[path])
             /\ ObjectsOf(cCopy'.data) \cap ObjectsOf(cData) = {}
             /\ cData' = cData
     /\ IndependentWrites]_vars

\* C14 amended: as above, except that a key the original lacks and the subtype
\* has a default for is present in the copy, holding the default.
C14_CopyEqualUpToDefaults ==
  [][/\ cCall'.op = "copy"
          => /\ cCopy'.made /\ cCopy'.cls = cCls
             /\ PlainPaths(cData) \subseteq PlainPaths(cCopy'.data)
             /\ \A path \in PlainPaths(cData) :
                  SameButUuids(cCopy'.data[path], cData[path])
             /\ \A path \in PlainPaths(cCopy'.data) \ PlainPaths(cData) :
                  /\ Len(path) = 1
                  /\ path[1] \in DOMAIN getDefaults(cCls, Undefined)
                  /\ cCopy'.data[path] = LeafOf(getDefaults(cCls, Undefined)[path[1]])
             /\ ObjectsOf(cCopy'.data) \cap ObjectsOf(cData) = {}
             /\ cData' = cData
     /\ IndependentWrites]_vars

\* a Rect whose width was unset has been copied, the copy has the default
\* width, and a name written into the copy's nested bag is not in the original's
C14_Witness ==
  /\ cCall.op = "write" /\ cCall.target = "copy" /\ cCall.path = <<"a">>
  /\ cCls = "Rect" /\ cCopy.cls = "Rect"
  /\ <<"width">> \notin DOMAIN cData
  /\ <<"width">> \in DOMAIN cCopy.data /\ cCopy.data[<<"width">>].atoms = <<"0">>
  /\ <<"a", "name">> \in DOMAIN cCopy.data
  /\ <<"a", "name">> \notin DOMAIN cData

\* C15: when copy() has returned, whatever string the original's uuid holds,
\* the copy's uuid differs from it, and every value under a key named uuid in
\* the copy differs from the value at the same place in the original.
C15_CopyHasNewUuids ==
  cCall.op = "copy"
    => /\ <<"uuid">> \in DOMAIN cCopy.data
       /\ <<"uuid">> \in DOMAIN cData
            => cCopy.data[<<"uuid">>].atoms # cData[<<"uuid">>].atoms
       /\ \A path \in UuidPaths(cCopy.data) \cap UuidPaths(cData) :
            cCopy.data[path].atoms # cData[path].atoms

\* C16 as stated: when copy() has returned, every UUID in a string of the
\* original's bag, under whatever key, has been replaced in the copy by a uuid
\* that occurs nowhere in the original.
C16_EveryUuidRewritten ==
  cCall.op = "copy"
    => \A path \in {q \in DOMAIN cData : cData[q].kind = "string"} :
         /\ path \in DOMAIN cCopy.data
         /\ Len(cCopy.data[path].atoms) = Len(cData[path].atoms)
         /\ \A i \in DOMAIN cData[path].atoms :
              IsV4(cData[path].atoms[i])
                => /\ IsV4(cCopy.data[path].atoms[i])
                   /\ cCopy.data[path].atoms[i] # cData[path].atoms[i]

\* the UUIDs copy() collects: the first UUID in the value of each uuid key
Collected(tree) ==
  {FirstV4(tree[path].atoms) : path \in UuidPaths(tree)} \ {Undefined}

\* C16 amended: when copy() has returned, every occurrence, under whatever key
\* and inside whatever string, of a UUID that is the value of some uuid key of
\* the original has been replaced by a newly generated uuid, the same one for
\* the same UUID; every other part of every string is as it was.
C16_CollectedUuidsRewritten ==
  cCall.op = "copy"
    => \A path \in {q \in DOMAIN cData : cData[q].kind = "string"} :
         /\ path \in DOMAIN cCopy.data
         /\ Len(cCopy.data[path].atoms) = Len(cData[path].atoms)
         /\ \A i \in DOMAIN cData[path].atoms :
              LET old == cData[path].atoms[i]
                  new == cCopy.data[path].atoms[i]
              IN IF old \in Collected(cData)
                 THEN /\ IsV4(new) /\ new # old
                      /\ \A q \in UuidPaths(cData) :
                           FirstV4(cData[q].atoms) = old
                             => FirstV4(cCopy.data[q].atoms) = new
                 ELSE new = old

\* the original's uuid is A and its ref holds "ref:" followed by A: the copy's
\* ref holds "ref:" followed by the copy's uuid
C16_Witness ==
  /\ cCall.op = "copy"
  /\ <<"uuid">> \in DOMAIN cData /\ cData[<<"uuid">>].atoms = <<"A">>
  /\ <<"ref">> \in DOMAIN cData /\ cData[<<"ref">>].atoms = <<"ref:", "A">>
  /\ cCopy.data[<<"ref">>].atoms = <<"ref:", cCopy.data[<<"uuid">>].atoms[1]>>
  /\ cCopy.data[<<"uuid">>].atoms # <<"A">>

\* C17: when copy() has returned, a string that is one UUID, stored under a key
\* other than uuid and not the value of any uuid key of the original, is in the
\* copy what it was in the original.
C17_ForeignUuidKept ==
  cCall.op = "copy"
    => \A path \in PlainPaths(cData) :
         (/\ cData[path].kind = "string"
          /\ IsUuidString(cData[path].atoms)
          /\ \A q \in UuidPaths(cData) : cData[q].atoms # cData[path].atoms)
           => /\ path \in DOMAIN cCopy.data
              /\ cCopy.data[path] = cData[path]

\* ref holds B, no uuid key holds B, another uuid key holds A and is rewritten:
\* the copy's ref is B
C17_Witness ==
  /\ cCall.op = "copy"
  /\ <<"ref">> \in DOMAIN cData /\ cData[<<"ref">>].atoms = <<"B">>
  /\ <<"uuid">> \in DOMAIN cData /\ cData[<<"uuid">>].atoms = <<"A">>
  /\ \A q \in UuidPaths(cData) : cData[q].atoms # <<"B">>
  /\ cCopy.data[<<"ref">>].atoms = <<"B">>
  /\ cCopy.data[<<"uuid">>].atoms # <<"A">>

\* C39: when copy() has returned, a string stored under a key other than uuid
\* that was equal to the value of a uuid key of the original is, in the copy,
\* equal to the value the copy holds under that uuid key, and that value is a
\* new one when the original's is a UUID.
C39_ReferenceFollowsUuid ==
  cCall.op = "copy"
    => \A path \in PlainPaths(cData), q \in UuidPaths(cData) :
         (cData[path].kind = "string" /\ cData[path].atoms = cData[q].atoms)
           => /\ path \in DOMAIN cCopy.data /\ q \in DOMAIN cCopy.data
              /\ cCopy.data[path].kind = "string"
              /\ cCopy.data[path].atoms = cCopy.data[q].atoms
              /\ IsUuidString(cData[q].atoms)
                   => /\ IsUuidString(cCopy.data[path].atoms)
                      /\ cCopy.data[path].atoms # cData[path].atoms

\* ref holds B, the uuid of the nested bags a and b, beside the root uuid A:
\* the copy's ref holds the new uuid of a and b, which is not the root's
C39_Witness ==
  /\ cCall.op = "copy"
  /\ <<"ref">> \in DOMAIN cData /\ cData[<<"ref">>].atoms = <<"B">>
  /\ <<"uuid">> \in DOMAIN cData /\ cData[<<"uuid">>].atoms = <<"A">>
  /\ <<"a", "uuid">> \in DOMAIN cData /\ cData[<<"a", "uuid">>].atoms = <<"B">>
  /\ <<"b", "uuid">> \in DOMAIN cData /\ cData[<<"b", "uuid">>].atoms = <<"B">>
  /\ cCopy.data[<<"ref">>].atoms = cCopy.data[<<"a", "uuid">>].atoms
  /\ cCopy.data[<<"ref">>].atoms = cCopy.data[<<"b", "uuid">>].atoms
  /\ cCopy.data[<<"ref">>].atoms # <<"B">>
  /\ cCopy.data[<<"ref">>].atoms # cCopy.data[<<"uuid">>].atoms

\* -------------------------------------------------------- Factory: actions
\* the identities asked for: two classes, an unknown name, and two names every
\* object inherits a property for
FactoryIdentities == {ModelIdentity, RectIdentity, "unknown.Thing", "constructor", "toString"}

\* the identities external code registers under, and what it registers
RegisteredIdentities == {ModelIdentity, RectIdentity}
RegisteredValues == {"Model", "Rect", "notAFunction"}

\* the identityGetter arguments: none, an attribute name, a function
Getters == {Undefined, "type", "function"}

\* an object literal holding bag
Plain(bag) == [type |-> "object", bag |-> bag]

\* the arguments of newInstanceFor and hasIdentityDefined
ObjInputs ==
  {Plain(EmptyBag),
   Plain([identity |-> ModelIdentity]),
   Plain([identity |-> "unknown.Thing"]),
   Plain([identity |-> "constructor"]),
   Plain([type |-> RectIdentity, width |-> "10"]),
   Plain([discriminator |-> "Model"]),
   [type |-> "nullproto", bag |-> [identity |-> RectIdentity]],
   NoArg,
   [type |-> "array", bag |-> EmptyBag],
   [type |-> "instance", bag |-> [identity |-> ModelIdentity, uuid |-> "u1"]]}

\* the constructorArgs of newInstance: none, or one bag: one with no default
\* key but width, one that defines every default key, one whose uuid is
\* undefined and whose identity is the empty string
ArgsInputs ==
  {<<>>,
   <<Plain([width |-> "10"])>>,
   <<Plain([identity |-> RectIdentity, uuid |-> "u1", x |-> "3", y |-> "0",
            width |-> "10", height |-> "0"])>>,
   <<Plain([uuid |-> Undefined, identity |-> "", width |-> "0"])>>}

\* new Factory(constructorMap, identityGetter)
FactoryInit ==
  /\ NoRegistry
  /\ NoModel
  /\ NoCopy
  /\ NoMultiton
  /\ NoNested
  /\ NoListeners
  /\ fMap \in {[kind |-> k, entries |-> e, own |-> EmptyBag] :
                 k \in MapKinds, e \in {EmptyBag, constructorMap}}
  /\ fGetter \in Getters
  /\ fCall = FactoryIdle

\* the map the factory holds is the caller's, who writes to it after the
\* factory was built: constructorMap.set(identity, value) on a Map, and
\* constructorMap[identity] = value on a plain object and on a CustomMap, where
\* it makes a property of the instance and leaves _map as it was
MapSet(identity, value) ==
  LET store == IF fMap.kind = "getter" THEN "own" ELSE "entries"
  IN /\ fCall = FactoryIdle
     /\ Get(fMap[store], identity) # value
     /\ fMap' = [fMap EXCEPT ![store] = (identity :> value) @@ @]
     /\ UNCHANGED <<fGetter, fCall, outsideFactory>>

\* factory.newInstance(identity, ...args)
FactoryNewInstance(identity, args) ==
  LET out == Factory_newInstance(fMap, identity, args, FreshUuid(1))
  IN /\ fCall = FactoryIdle
     /\ fCall' = [op |-> "newInstance", identity |-> identity, args |-> args,
                  err |-> out.err, value |-> FALSE, out |-> out]
     /\ UNCHANGED <<fMap, fGetter, outsideFactory>>

\* factory.newInstanceFor(obj)
FactoryNewInstanceForObj(obj) ==
  LET out == Factory_newInstanceFor(fMap, fGetter, obj, FreshUuid(1))
  IN /\ fCall = FactoryIdle
     /\ fCall' = [op |-> "newInstanceFor", identity |-> Undefined, args |-> <<obj>>,
                  err |-> out.err, value |-> FALSE, out |-> out]
     /\ UNCHANGED <<fMap, fGetter, outsideFactory>>

\* factory.isKnownIdentity(identity)
FactoryIsKnownIdentity(identity) ==
  /\ fCall = FactoryIdle
  /\ fCall' = [op |-> "isKnownIdentity", identity |-> identity, args |-> <<>>,
               err |-> "none", value |-> Factory_isKnownIdentity(fMap, identity),
               out |-> Thrown(Undefined)]
  /\ UNCHANGED <<fMap, fGetter, outsideFactory>>

\* factory.hasIdentityDefined(obj)
FactoryHasIdentityDefined(obj) ==
  LET o == Factory_hasIdentityDefined(fGetter, obj)
  IN /\ fCall = FactoryIdle
     /\ fCall' = [op |-> "hasIdentityDefined", identity |-> Undefined, args |-> <<obj>>,
                  err |-> o.err, value |-> o.value, out |-> Thrown(Undefined)]
     /\ UNCHANGED <<fMap, fGetter, outsideFactory>>

\* the call has returned or thrown
FactoryReturn ==
  /\ fCall # FactoryIdle
  /\ fCall' = FactoryIdle
  /\ UNCHANGED <<fMap, fGetter, outsideFactory>>

FactoryNext ==
  \/ \E identity \in RegisteredIdentities, value \in RegisteredValues : MapSet(identity, value)
  \/ \E identity \in FactoryIdentities, args \in ArgsInputs : FactoryNewInstance(identity, args)
  \/ \E obj \in ObjInputs : FactoryNewInstanceForObj(obj)
  \/ \E identity \in FactoryIdentities : FactoryIsKnownIdentity(identity)
  \/ \E obj \in ObjInputs : FactoryHasIdentityDefined(obj)
  \/ FactoryReturn

SpecFactory == FactoryInit /\ [][FactoryNext]_vars

\* --------------------------------------------------------- Factory: claims

\* what the constructor map holds under identity: its entry, and for a
\* CustomMap whose _map has none, the property assigned onto it
HeldUnder(identity) ==
  IF fMap.kind = "getter" /\ Falsy(Get(fMap.entries, identity))
  THEN Get(fMap.own, identity)
  ELSE Get(fMap.entries, identity)

\* a constructor has been registered under identity in the constructor map
Registered(identity) == HeldUnder(identity) \in {"Model", "Rect"}

\* the configured identity getter yields a defined value for bag
YieldsIdentity(bag) ==
  \/ fGetter = Undefined /\ "identity" \in DOMAIN bag
  \/ fGetter = "type" /\ "type" \in DOMAIN bag
  \/ fGetter = "function"

\* C18: whatever the kind of the constructor map, when newInstance(identity,
\* ...args) has returned or thrown: if a constructor is registered under
\* identity it returned an instance of that constructor, and if none is it
\* threw a TypeError and no constructor was invoked.
C18_NewInstance ==
  fCall.op = "newInstance"
    => IF Registered(fCall.identity)
       THEN /\ fCall.err = "none"
            /\ fCall.out.cls = HeldUnder(fCall.identity)
       ELSE /\ fCall.err = "TypeError"
            /\ fCall.out.invoked = Undefined

\* C19: isKnownIdentity(identity) has returned true exactly when a constructor
\* is registered under identity, and hasIdentityDefined(bag) has returned true
\* exactly when the identity getter yields a defined value for the bag.
C19_IdentityPredicates ==
  /\ fCall.op = "isKnownIdentity" => fCall.value = Registered(fCall.identity)
  /\ (fCall.op = "hasIdentityDefined" /\ isPlainObject(fCall.args[1]))
       => /\ fCall.err = "none"
          /\ fCall.value = YieldsIdentity(fCall.args[1].bag)

\* C20: when newInstanceFor(bag) has returned or thrown: if bag is a plain
\* object, yields an identity and a constructor is registered for it, it
\* returned an instance of that constructor that holds the bag itself, with
\* the values the bag had; otherwise it threw a TypeError and no constructor
\* was invoked.
C20_NewInstanceFor ==
  fCall.op = "newInstanceFor"
    => LET obj == fCall.args[1]
           identity == identityGetter(fGetter, obj.bag)
       IN IF isPlainObject(obj) /\ YieldsIdentity(obj.bag) /\ Registered(identity)
          THEN /\ fCall.err = "none"
               /\ fCall.out.cls = HeldUnder(identity)
               /\ fCall.out.dataRef = "arg"
               /\ \A k \in DOMAIN obj.bag : Get(fCall.out.data, k) = obj.bag[k]
          ELSE /\ fCall.err = "TypeError"
               /\ fCall.out.invoked = Undefined

\* C26: when newInstance has constructed a Model or a Rect from a data bag d,
\* the instance holds d itself; its data has the keys of d and of the
\* subtype's defaults, with the default under each default key whose value in
\* d is undefined (a uuid that d does not hold when uuid is one of them) and
\* d's value under every other key; its previous-values bag is empty; and if d
\* defines every default key its data equals d.
C26_ConstructorDefaults ==
  (fCall.op = "newInstance" /\ fCall.out.cls \in {"Model", "Rect"} /\ fCall.args # <<>>)
    => LET d == fCall.args[1].bag
           defaults == getDefaults(fCall.out.cls, FreshUuid(1))
           out == fCall.out
       IN /\ out.dataRef = "arg"
          /\ out.previous = EmptyBag
          /\ DOMAIN out.data = DOMAIN d \cup DOMAIN defaults
          /\ \A k \in DOMAIN out.data :
                out.data[k] = IF k \in DOMAIN defaults /\ Get(d, k) = Undefined
                              THEN defaults[k] ELSE d[k]
          /\ Get(d, "uuid") = Undefined => \A k \in DOMAIN d : d[k] # out.data["uuid"]
          /\ (\A k \in DOMAIN defaults : Get(d, k) # Undefined) => out.data = d

\* a Rect has been constructed from a bag whose uuid is undefined and whose
\* identity is the empty string: it got a uuid and the Rect defaults it lacked,
\* and kept its identity
C26_Witness ==
  /\ fCall.op = "newInstance"
  /\ fCall.args # <<>>
  /\ fCall.out.cls = "Rect"
  /\ "uuid" \in DOMAIN fCall.args[1].bag
  /\ fCall.args[1].bag["uuid"] = Undefined
  /\ fCall.out.data["uuid"] = FreshUuid(1)
  /\ fCall.out.data["identity"] = ""
  /\ fCall.out.data["height"] = "0"

\* --------------------------------------------------------------- Registry.get
\* how many Registry instances Registry.get constructs
MaxRegistries == 3

\* the names asked for
Names == {"a", "b"}

\* the factory arguments: none, a Factory, a factory function, a plain object
FactoryArgs == {Undefined, "Factory", "function", "object"}

\* isValidFactory(value)
isValidFactory(value) == value \in {"Factory", "function"}

\* new Registry(factory, options): [err, reg]
RegistryConstructor(factory, allowOverrides) ==
  IF Falsy(factory) \/ ~isValidFactory(factory)
  THEN [err |-> "TypeError",
        reg |-> [factory |-> Undefined, allowOverrides |-> FALSE, disposed |-> FALSE]]
  ELSE [err |-> "none",
        reg |-> [factory |-> factory, allowOverrides |-> allowOverrides,
                 disposed |-> FALSE]]

\* a Registry.get that constructs anew when the remembered instance is disposed
Registry_get_RenewsDisposed(instances, regs, name, factory, allowOverrides) ==
  LET made == RegistryConstructor(factory, allowOverrides)
      n == Len(regs) + 1
  IN IF name \in DOMAIN instances /\ ~regs[instances[name]].disposed
     THEN [err |-> "none", result |-> instances[name], instances |-> instances,
           regs |-> regs]
     ELSE IF made.err # "none"
     THEN [err |-> made.err, result |-> NoResult, instances |-> instances, regs |-> regs]
     ELSE [err |-> "none", result |-> n, instances |-> (name :> n) @@ instances,
           regs |-> Append(regs, made.reg)]

\* Registry.get(name, factory, options): [err, result, instances, regs]
Registry_get(instances, regs, name, factory, allowOverrides) ==
  LET made == RegistryConstructor(factory, allowOverrides)
      n == Len(regs) + 1
  IN IF name \in DOMAIN instances
     THEN [err |-> "none", result |-> instances[name], instances |-> instances,
           regs |-> regs]
     ELSE IF made.err # "none"
     THEN [err |-> made.err, result |-> NoResult, instances |-> instances, regs |-> regs]
     ELSE [err |-> "none", result |-> n, instances |-> (name :> n) @@ instances,
           regs |-> Append(regs, made.reg)]

MultitonInit ==
  /\ NoRegistry
  /\ NoModel
  /\ NoCopy
  /\ NoFactory
  /\ NoMultiton
  /\ NoNested
  /\ NoListeners

\* Registry.get(name, factory, {allowOverrides})
RegistryGet(name, factory, allowOverrides) ==
  LET g == Registry_get(gInstances, gRegs, name, factory, allowOverrides)
  IN /\ gCall = MultitonIdle
     /\ Len(g.regs) <= MaxRegistries
     /\ gInstances' = g.instances
     /\ gRegs' = g.regs
     /\ gCall' = [op |-> "get", name |-> name, factory |-> factory,
                  allowOverrides |-> allowOverrides, err |-> g.err, result |-> g.result]
     /\ UNCHANGED outsideMultiton

\* Registry._instances.delete(name)
Evict(name) ==
  /\ gCall = MultitonIdle
  /\ name \in DOMAIN gInstances
  /\ gInstances' = Without(gInstances, name)
  /\ gCall' = [MultitonIdle EXCEPT !.op = "evict", !.name = name]
  /\ UNCHANGED <<gRegs, outsideMultiton>>

\* dispose() on a registry Registry.get returned
DisposeInstance(i) ==
  /\ gCall = MultitonIdle
  /\ ~gRegs[i].disposed
  /\ gRegs' = [gRegs EXCEPT ![i] = [factory |-> Undefined,
                                    allowOverrides |-> @.allowOverrides,
                                    disposed |-> TRUE]]
  /\ gCall' = [MultitonIdle EXCEPT !.op = "dispose", !.result = i]
  /\ UNCHANGED <<gInstances, outsideMultiton>>

\* the call has returned or raised
MultitonReturn ==
  /\ gCall # MultitonIdle
  /\ gCall' = MultitonIdle
  /\ UNCHANGED <<gInstances, gRegs, outsideMultiton>>

MultitonNext ==
  \/ \E name \in Names, factory \in FactoryArgs, allowOverrides \in BOOLEAN :
       RegistryGet(name, factory, allowOverrides)
  \/ \E name \in Names : Evict(name)
  \/ \E i \in 1..Len(gRegs) : DisposeInstance(i)
  \/ MultitonReturn

SpecMultiton == MultitonInit /\ [][MultitonNext]_vars

\* C25: Registry.get(name, ...) for a name the table holds returns the instance
\* the table holds, whatever factory and options are passed and whether or not
\* that instance has been disposed, constructs nothing and changes nothing;
\* for a name the table does not hold it constructs a registry from its
\* arguments and remembers it, or raises and remembers nothing; and no two
\* names of the table designate the same instance.
C25_Multiton ==
  [][/\ gCall'.op = "get"
          => IF gCall'.name \in DOMAIN gInstances
             THEN /\ gCall'.err = "none"
                  /\ gCall'.result = gInstances[gCall'.name]
                  /\ gInstances' = gInstances /\ gRegs' = gRegs
             ELSE IF isValidFactory(gCall'.factory)
             THEN /\ gCall'.err = "none"
                  /\ gCall'.result = Len(gRegs) + 1
                  /\ gInstances' = (gCall'.name :> gCall'.result) @@ gInstances
                  /\ gRegs' = Append(gRegs, [factory |-> gCall'.factory,
                                             allowOverrides |-> gCall'.allowOverrides,
                                             disposed |-> FALSE])
             ELSE /\ gCall'.err = "TypeError"
                  /\ gInstances' = gInstances /\ gRegs' = gRegs
     /\ \A n1 \in DOMAIN gInstances', n2 \in DOMAIN gInstances' :
          n1 # n2 => gInstances'[n1] # gInstances'[n2]]_vars

\* Registry.get was called with another factory for a name whose registry has
\* been disposed, and returned that registry, while another name has its own
C25_Witness ==
  /\ gCall.op = "get" /\ gCall.err = "none"
  /\ gRegs[gCall.result].disposed
  /\ gCall.factory = "function"
  /\ Cardinality(DOMAIN gInstances) = 2
  /\ Len(gRegs) = 3

\* ---------------------------------------------------------- lazy sub-models
\* the parents: one model, and a second one whose property f holds either the
\* same nested bag object or another object with the same content (the data
\* restored from the same JSON text)
Parents == {1, 2}

\* the nested data bags a parent holds under f: a Rect's data, with or without uuid
NestedBags == {MkBag(u, RectIdentity) : u \in {Undefined, "u1"}}

\* the writes made through a sub-model: <<property, value>>
Writes == {<<"width", "10">>, <<"width", "3">>, <<"uuid", "u2">>}

\* modelRegistry = new Registry(modelFactory), no sub-model asked for yet
NestedInit ==
  /\ NoModel
  /\ NoCopy
  /\ NoFactory
  /\ NoMultiton
  /\ NoListeners
  /\ models = <<>>
  /\ rMap = [own |-> TRUE, defined |-> TRUE, entries |-> EmptyBag]
  /\ rFactory = "Factory"
  /\ rOptions = [defined |-> TRUE, allowOverrides |-> DONT_ALLOW_OVERRIDES]
  /\ rKeyGetter = TRUE
  /\ last = Idle
  /\ issued = EmptyBag
  /\ \E bag \in NestedBags : hObjects = <<bag, bag>>
  /\ hNested \in {<<1, 1>>, <<1, 2>>}
  /\ hInst = <<>>
  /\ hFirst = <<0, 0>>
  /\ hCall = NestedIdle

\* Dimensions._getModel(f) of a parent: modelRegistry.getModel(this.get(f)).
\* A Model that getModel constructs holds the nested bag object itself and
\* writes its defaults into it.
SubModel(parent) ==
  LET o == hNested[parent]
      g == getModel(Data(hObjects[o]), "none")
      built == g.made.err = "none" /\ g.made.isModel
      kept == g.err = "none" /\ g.constructed = 1
  IN /\ hCall = NestedIdle
     /\ kept => Len(models) < MaxModels
     /\ hObjects' = IF built THEN [hObjects EXCEPT ![o] = g.made.data] ELSE hObjects
     /\ models' = IF kept
                  THEN Append(models, [cls |-> g.made.cls, data |-> g.made.data])
                  ELSE models
     /\ hInst' = IF kept THEN Append(hInst, [ref |-> o, previousData |-> EmptyBag])
                 ELSE hInst
     /\ rMap' = [rMap EXCEPT !.entries = g.entries]
     /\ hFirst' = IF g.err = "none" /\ hFirst[parent] = 0
                  THEN [hFirst EXCEPT ![parent] = g.result] ELSE hFirst
     /\ hCall' = [NestedIdle EXCEPT !.op = "getModel", !.parent = parent,
                                    !.instance = g.result, !.err = g.err]
     /\ UNCHANGED <<rFactory, rOptions, rKeyGetter, last, issued, hNested, outsideNested>>

\* instance.set(property, value) on a sub-model: the write goes to the object
\* the instance holds, which every instance over that object reads
SubModelSet(i, property, value) ==
  LET o == hInst[i].ref
      w == Model_set(hObjects[o], hInst[i].previousData, property, value, FALSE, FALSE)
  IN /\ hCall = NestedIdle
     /\ hObjects' = [hObjects EXCEPT ![o] = w.data]
     /\ hInst' = [hInst EXCEPT ![i].previousData = w.previousData]
     /\ models' = [j \in DOMAIN models |->
                     IF hInst[j].ref = o THEN [models[j] EXCEPT !.data = w.data]
                     ELSE models[j]]
     /\ hCall' = [NestedIdle EXCEPT !.op = "set", !.instance = i,
                                    !.property = property, !.value = value]
     /\ UNCHANGED <<rMap, rFactory, rOptions, rKeyGetter, last, issued, hNested, hFirst,
                    outsideNested>>

\* modelRegistry.register(model), the key taken from the model's data
SubModelRegister(i) ==
  LET r == register(rMap.entries, [isModel |-> TRUE, data |-> models[i].data], i,
                    Undefined)
  IN /\ hCall = NestedIdle
     /\ rMap' = [rMap EXCEPT !.entries = r.entries]
     /\ hCall' = [NestedIdle EXCEPT !.op = "register", !.instance = i, !.err = r.err]
     /\ UNCHANGED <<models, rFactory, rOptions, rKeyGetter, last, issued,
                    hObjects, hNested, hInst, hFirst, outsideNested>>

\* modelRegistry.unregister(model), the key taken from the model's data
SubModelUnregister(i) ==
  LET u == unregister(rMap.entries, models[i].data, Undefined)
  IN /\ hCall = NestedIdle
     /\ rMap' = [rMap EXCEPT !.entries = u.entries]
     /\ hCall' = [NestedIdle EXCEPT !.op = "unregister", !.instance = i, !.err = u.err]
     /\ UNCHANGED <<models, rFactory, rOptions, rKeyGetter, last, issued,
                    hObjects, hNested, hInst, hFirst, outsideNested>>

\* the call has returned
NestedReturn ==
  /\ hCall # NestedIdle
  /\ hCall' = NestedIdle
  /\ UNCHANGED <<regVars, hObjects, hNested, hInst, hFirst, outsideNested>>

NestedNext ==
  \/ \E parent \in Parents : SubModel(parent)
  \/ \E i \in 1..Len(models), w \in Writes : SubModelSet(i, w[1], w[2])
  \/ \E i \in 1..Len(models) : SubModelRegister(i)
  \/ \E i \in 1..Len(models) : SubModelUnregister(i)
  \/ NestedReturn

SpecNested == NestedInit /\ [][NestedNext]_vars

\* C27: every getModel(parent.get(f)) returns the instance the first such call
\* for that parent returned, and after a write of value under property p
\* through that instance the parent's nested bag holds value under p.
C27_LazySubModels ==
  /\ hCall.op = "getModel"
       => /\ hCall.err = "none"
          /\ hCall.instance = hFirst[hCall.parent]
  /\ hCall.op = "set"
       => \A parent \in Parents :
            hFirst[parent] = hCall.instance
              => Get(hObjects[hNested[parent]], hCall.property) = hCall.value

\* C33: every entry (k, m) of the registry has k equal to the key extracted
\* from the current data bag of m.
C33_KeyConsistency ==
  \A k \in DOMAIN rMap.entries :
    Get(models[rMap.entries[k]].data, keyAttr) = k

\* ------------------------------------------------- Model: listeners, dispose
\* how many listeners are registered over the life of the model
MaxListeners == 2

\* the event types listened to
EventTypes == {"change", "change width"}

\* the bags handed to assignData and resetData
ListenerBags == {EmptyBag, [width |-> "10"]}

\* emit that catches what a listener throws
RECURSIVE emit_Swallows(_, _)
emit_Swallows(listeners, events) ==
  IF events = <<>> THEN [err |-> "none", invoked |-> <<>>, received |-> <<>>]
  ELSE LET heard == SelectSeq(listeners, LAMBDA l : l.event = Head(events).type)
           rest == emit_Swallows(listeners, Tail(events))
       IN [err |-> "none",
           invoked |-> [i \in 1..Len(heard) |-> heard[i].id] \o rest.invoked,
           received |-> [i \in 1..Len(heard) |->
                           [id |-> heard[i].id, type |-> Head(events).type,
                            args |-> Head(events).args]] \o rest.received]

\* this.emit(eventType, ...) for each event of a dispatch, in order: the
\* listeners of the type are called in registration order; what a listener
\* throws leaves emit, dispatchEvent, dispatchChange and the caller, and
\* nothing later is called: [err, invoked, received], received being what each
\* listener called was handed after the event type and the model
RECURSIVE emit(_, _)
emit(listeners, events) ==
  IF events = <<>> THEN [err |-> "none", invoked |-> <<>>, received |-> <<>>]
  ELSE LET heard == SelectSeq(listeners, LAMBDA l : l.event = Head(events).type)
           thrower == IF \E i \in 1..Len(heard) : heard[i].throws
                      THEN CHOOSE i \in 1..Len(heard) :
                             /\ heard[i].throws
                             /\ \A j \in 1..(i - 1) : ~heard[j].throws
                      ELSE 0
           called == IF thrower = 0 THEN heard ELSE SubSeq(heard, 1, thrower)
           ids == [i \in 1..Len(called) |-> called[i].id]
           got == [i \in 1..Len(called) |->
                     [id |-> called[i].id, type |-> Head(events).type,
                      args |-> Head(events).args]]
       IN IF thrower # 0 THEN [err |-> "Error", invoked |-> ids, received |-> got]
          ELSE LET rest == emit(listeners, Tail(events))
               IN [err |-> rest.err, invoked |-> ids \o rest.invoked,
                   received |-> got \o rest.received]

\* Model.toggle(property, flags): set(property, !get(property, false), flags)
Model_toggle(d, prev, property, setSilent) ==
  LET current == Model_get(d, property, "false")
  IN Model_set(d, prev, property, IF Falsy(current) THEN "true" ELSE "false",
               setSilent, FALSE)

\* _deleteReferences that assigns empty objects
Model_deleteReferences_EmptyObjects ==
  [defined |-> TRUE, data |-> EmptyBag, previousData |-> EmptyBag]

\* Model._deleteReferences(): _data and _previousData are assigned undefined
Model_deleteReferences ==
  [defined |-> FALSE, data |-> EmptyBag, previousData |-> EmptyBag]

\* assertType(property, value, typeofValue): the error raised
assertType(value, typeofValue) ==
  IF TypeOf(value) # typeofValue THEN "TypeError" ELSE "none"

\* assertNumber(property, value)
assertNumber(value) == assertType(value, "number")

\* the values assigned to rect.width: two numbers, a string, undefined
WidthValues == {"10", "3", "wide", Undefined}

\* a width setter that validates after it has set
Rect_setWidth_SetFirst(d, prev, value) ==
  [err |-> assertNumber(value)] @@ Model_set(d, prev, "width", value, FALSE, FALSE)

\* set width(value) of Rect: assertNumber('Rect.width', value), then
\* this.set('width', value): [err, data, previousData, events]
Rect_setWidth(d, prev, value) ==
  IF assertNumber(value) # "none"
  THEN [err |-> "TypeError", data |-> d, previousData |-> prev, events |-> <<>>]
  ELSE [err |-> "none"] @@ Model_set(d, prev, "width", value, FALSE, FALSE)

\* new Rect(data), no listener registered
ListenerInit ==
  /\ NoRegistry
  /\ NoCopy
  /\ NoFactory
  /\ NoMultiton
  /\ NoNested
  /\ \E bag \in InitBags : mData = ModelConstructor("Rect", bag, FreshUuid(1))
  /\ mPreviousData = EmptyBag
  /\ mCall = ModelIdle
  /\ mCreated = [uuid |-> Get(mData, "uuid"), identity |-> Get(mData, "identity")]
  /\ mDrawn = 1
  /\ eListeners = <<>>
  /\ eDefined = TRUE
  /\ eDisposed = FALSE
  /\ eRemoved = {}
  /\ eIssued = 0
  /\ eCall = ListenerIdle

\* model.addEventListener(event, listener): this.addListener(event, listener)
AddEventListener(event, throws) ==
  /\ eCall = ListenerIdle
  /\ eIssued < MaxListeners
  /\ eListeners' = Append(eListeners, [id |-> eIssued + 1, event |-> event,
                                       throws |-> throws])
  /\ eIssued' = eIssued + 1
  /\ eCall' = [ListenerIdle EXCEPT !.op = "addEventListener", !.property = event]
  /\ UNCHANGED <<eDefined, eDisposed, eRemoved, modelVars, outsideListeners>>

\* what removeListener(event, listener) leaves: the registrations of that
\* listener for that event are taken out, the others keep their order
removeListener(listeners, event, id) ==
  SelectSeq(listeners, LAMBDA l : ~(l.event = event /\ l.id = id))

\* model.removeEventListener(event, listener): this.removeListener(event,
\* listener), listener being the id-th function ever registered; it returns
\* the model whether or not the listener was registered for the event
RemoveEventListener(event, id) ==
  /\ eCall = ListenerIdle
  /\ eListeners' = removeListener(eListeners, event, id)
  /\ eCall' = [ListenerIdle EXCEPT !.op = "removeEventListener", !.property = event]
  /\ UNCHANGED <<eDefined, eDisposed, eRemoved, eIssued, modelVars, outsideListeners>>

\* a mutator that dispatches before it writes the data bag
writeThenDispatch_DispatchFirst(d, listeners, o) ==
  LET e == emit(listeners, o.events)
  IN [data |-> IF e.err # "none" THEN d ELSE o.data, previousData |-> o.previousData,
      seen |-> d] @@ e

\* the tail of a mutator, o being what it computes from the data bag d: the
\* bags are written, then the events are dispatched to listeners that find
\* the bag as written; what a listener throws undoes nothing:
\* [data, previousData, seen, err, invoked, received]
writeThenDispatch(d, listeners, o) ==
  [data |-> o.data, previousData |-> o.previousData, seen |-> o.data]
    @@ emit(listeners, o.events)

\* a mutator called as call, o being what it computes from the bags: with
\* _data undefined its first read of this._data raises a TypeError; otherwise
\* the bags are written and then the events are dispatched
Mutate(call, o) ==
  /\ eCall = ListenerIdle
  /\ IF eDefined
     THEN LET d == writeThenDispatch(mData, eListeners, o)
          IN /\ mData' = d.data
             /\ mPreviousData' = d.previousData
             /\ eCall' = [call EXCEPT !.err = d.err, !.invoked = d.invoked,
                                      !.received = d.received, !.seen = d.seen]
     ELSE /\ UNCHANGED <<mData, mPreviousData>>
          /\ eCall' = [call EXCEPT !.err = "TypeError"]
  /\ UNCHANGED <<eListeners, eDefined, eDisposed, eRemoved, eIssued,
                 mCall, mCreated, mDrawn, outsideListeners>>

\* model.set(property, value, {setSilent})
ListenedSet(property, value, setSilent) ==
  Mutate([ListenerIdle EXCEPT !.op = "set", !.property = property, !.value = value,
                              !.setSilent = setSilent],
         Model_set(mData, mPreviousData, property, value, setSilent, FALSE))

\* model.unset(property, {setSilent})
ListenedUnset(property, setSilent) ==
  Mutate([ListenerIdle EXCEPT !.op = "unset", !.property = property,
                              !.setSilent = setSilent],
         Model_unset(mData, mPreviousData, property, setSilent, FALSE))

\* model.toggle(property, {setSilent})
ListenedToggle(property, setSilent) ==
  Mutate([ListenerIdle EXCEPT !.op = "toggle", !.property = property,
                              !.setSilent = setSilent],
         Model_toggle(mData, mPreviousData, property, setSilent))

\* model.assignData(newData, {setSilent})
ListenedAssignData(newData, setSilent) ==
  Mutate([ListenerIdle EXCEPT !.op = "assignData", !.bag = newData,
                              !.setSilent = setSilent],
         Model_assignData(mData, mPreviousData, newData, setSilent))

\* model.resetData(defaultData, {setSilent}); the model keeps its uuid
ListenedResetData(defaultData, setSilent) ==
  Mutate([ListenerIdle EXCEPT !.op = "resetData", !.bag = defaultData,
                              !.setSilent = setSilent],
         Model_resetData("Rect", mData, mPreviousData, defaultData, setSilent,
                         FreshUuid(mDrawn + 1)))

\* rect.width = value
RectSetWidth(value) ==
  LET r == Rect_setWidth(mData, mPreviousData, value)
      d == writeThenDispatch(mData, eListeners, r)
  IN /\ eCall = ListenerIdle
     /\ IF eDefined
        THEN /\ mData' = d.data
             /\ mPreviousData' = d.previousData
             /\ eCall' = [ListenerIdle EXCEPT
                            !.op = "width=", !.property = "width", !.value = value,
                            !.err = IF d.err # "none" THEN d.err ELSE r.err,
                            !.invoked = d.invoked, !.received = d.received,
                            !.seen = d.seen]
        ELSE /\ UNCHANGED <<mData, mPreviousData>>
             /\ eCall' = [ListenerIdle EXCEPT
                            !.op = "width=", !.property = "width", !.value = value,
                            !.err = "TypeError"]
     /\ UNCHANGED <<eListeners, eDefined, eDisposed, eRemoved, eIssued,
                    mCall, mCreated, mDrawn, outsideListeners>>

\* model.dispatchChange(property), called from outside
ListenedDispatchChange(property) ==
  LET d == emit(eListeners, dispatchChange(property, Undefined, Undefined))
  IN /\ eCall = ListenerIdle
     /\ eCall' = [ListenerIdle EXCEPT !.op = "dispatchChange", !.property = property,
                                      !.err = d.err, !.invoked = d.invoked,
                                      !.received = d.received, !.seen = mData]
     /\ UNCHANGED <<eListeners, eDefined, eDisposed, eRemoved, eIssued, modelVars,
                    outsideListeners>>

\* model.dispose(): removeAllListeners(), then _deleteReferences()
ModelDispose ==
  LET r == Model_deleteReferences
  IN /\ eCall = ListenerIdle
     /\ eListeners' = <<>>
     /\ eDefined' = r.defined
     /\ mData' = r.data
     /\ mPreviousData' = r.previousData
     /\ eDisposed' = TRUE
     /\ eRemoved' = eRemoved \cup {eListeners[i].id : i \in 1..Len(eListeners)}
     /\ eCall' = [ListenerIdle EXCEPT !.op = "dispose"]
     /\ UNCHANGED <<eIssued, mCall, mCreated, mDrawn, outsideListeners>>

\* the call has returned or raised
ListenerReturn ==
  /\ eCall # ListenerIdle
  /\ eCall' = ListenerIdle
  /\ UNCHANGED <<eListeners, eDefined, eDisposed, eRemoved, eIssued, modelVars,
                 outsideListeners>>

ListenerNext ==
  \/ \E event \in EventTypes, throws \in BOOLEAN : AddEventListener(event, throws)
  \/ \E event \in EventTypes, id \in 1..eIssued : RemoveEventListener(event, id)
  \/ \E value \in SetValues, setSilent \in BOOLEAN : ListenedSet("width", value, setSilent)
  \/ \E setSilent \in BOOLEAN : ListenedUnset("width", setSilent)
  \/ \E setSilent \in BOOLEAN : ListenedToggle("width", setSilent)
  \/ \E newData \in ListenerBags, setSilent \in BOOLEAN : ListenedAssignData(newData, setSilent)
  \/ \E defaultData \in ListenerBags, setSilent \in BOOLEAN :
       ListenedResetData(defaultData, setSilent)
  \/ \E value \in WidthValues : RectSetWidth(value)
  \/ \E property \in {Undefined, "width"} : ListenedDispatchChange(property)
  \/ ModelDispose
  \/ ListenerReturn

SpecListeners == ListenerInit /\ [][ListenerNext]_vars

\* ------------------------------------------------- Model: listeners, claims
Mutators == {"set", "unset", "toggle", "assignData", "resetData"}

\* C28: once dispose() has been called the model has no data and no
\* previous-values bag, no listener that was registered when dispose() was
\* called is invoked by any call, the dispose call leaves no listener, and
\* every call of set, unset, toggle, assignData or resetData raises an error.
C28_Disposed ==
  eDisposed
    => /\ ~eDefined
       /\ \A i \in 1..Len(eCall.invoked) : eCall.invoked[i] \notin eRemoved
       /\ eCall.op = "dispose" => eListeners = <<>>
       /\ eCall.op \in Mutators => eCall.err # "none"

\* a model that had a listener was disposed, got a new listener, and a set on
\* it has raised
C28_Witness ==
  /\ eDisposed
  /\ eRemoved # {}
  /\ eListeners # <<>>
  /\ eCall.op = "set"
  /\ eCall.err = "TypeError"

\* some listener that a call has invoked throws
ListenerThrew ==
  \E i \in 1..Len(eCall.invoked), j \in 1..Len(eListeners) :
    eListeners[j].id = eCall.invoked[i] /\ eListeners[j].throws

\* C29: when a set has invoked a listener that throws, the set call has
\* raised that error.
C29_ThrowingListener ==
  (eCall.op = "set" /\ ListenerThrew) => eCall.err = "Error"

\* a set that changed width has invoked a throwing listener of "change"
\* after a listener of "change width" that returned
C29_Witness ==
  /\ eCall.op = "set"
  /\ Len(eCall.invoked) = 2
  /\ ListenerThrew
  /\ eCall.err = "Error"

\* C30: a step in which rect.width is assigned a value that is no number ends
\* with a TypeError raised, the data bag and the previous-values bag as they
\* were before the step, and no listener invoked.
C30_RejectedWidth ==
  [][(eCall.op = "idle" /\ eCall'.op = "width=" /\ TypeOf(eCall'.value) # "number")
       => /\ eCall'.err = "TypeError"
          /\ mData' = mData
          /\ mPreviousData' = mPreviousData
          /\ eCall'.invoked = <<>>]_vars

\* a Rect of width 10 with a listener of "change width" has rejected the
\* width "wide"
C30_Witness ==
  /\ eCall.op = "width="
  /\ eCall.value = "wide"
  /\ eCall.err = "TypeError"
  /\ eDefined
  /\ Get(mData, "width") = "10"
  /\ \E j \in 1..Len(eListeners) : eListeners[j].event = "change width"

\* the listeners registered for the events of a change of p
Hearing(p) ==
  {eListeners[j].id : j \in {j \in 1..Len(eListeners) :
                               eListeners[j].event \in {"change", "change " \o p}}}

\* C34: when a non-silent set(p, v) that changed the value has returned or
\* raised: no listener of 'change p' was called after a listener of 'change';
\* the listeners of one topic were called in the order they were registered;
\* each listener of 'change p' was handed the new and the old value; every
\* listener called found v in the data bag; and if no listener threw, every
\* listener of the two topics was called.
C34_EventOrder ==
  (eCall.op = "set" /\ ~eCall.setSilent /\ eDefined
     /\ eCall.value # getPrevious(mPreviousData, eCall.property))
    => LET R == eCall.received
           p == eCall.property
       IN /\ \A i, j \in 1..Len(R) :
               (i < j /\ R[i].type = "change") => R[j].type = "change"
          /\ \A i, j \in 1..Len(R) :
               (i < j /\ R[i].type = R[j].type) => R[i].id < R[j].id
          /\ \A i \in 1..Len(R) :
               R[i].type = "change " \o p
                 => R[i].args = <<eCall.value, getPrevious(mPreviousData, p)>>
          /\ R # <<>> => Get(eCall.seen, p) = eCall.value
          /\ eCall.err = "none" => {R[i].id : i \in 1..Len(R)} = Hearing(p)

\* a set of width to 10 has called a listener of 'change width' and then a
\* listener of 'change' that was registered before it
C34_Witness ==
  /\ eCall.op = "set"
  /\ eCall.value = "10"
  /\ Len(eCall.received) = 2
  /\ eCall.received[1].type = "change width"
  /\ eCall.received[1].args = <<"10", "0">>
  /\ eCall.received[2].type = "change"
  /\ eCall.received[2].id < eCall.received[1].id

\* the last listener that call c invoked was a listener of event, and it threw
ThrewAt(c, event) ==
  /\ c.err = "Error"
  /\ c.received # <<>>
  /\ c.received[Len(c.received)].type = event
  /\ \E j \in 1..Len(eListeners) :
       eListeners[j].id = c.received[Len(c.received)].id /\ eListeners[j].throws

\* C37: a non-silent set(p, v) during which a listener of 'change p' throws
\* ends with v in the data bag, the value p had before the call in the
\* previous-values bag, and no listener of 'change' called.
C37_ThrowKeepsWrite ==
  [][(eCall.op = "idle" /\ eCall'.op = "set" /\ ~eCall'.setSilent
        /\ ThrewAt(eCall', "change " \o eCall'.property))
       => /\ Get(mData', eCall'.property) = eCall'.value
          /\ Get(mData, eCall'.property) # eCall'.value
          /\ getPrevious(mPreviousData', eCall'.property) = Get(mData, eCall'.property)
          /\ \A i \in 1..Len(eCall'.received) : eCall'.received[i].type # "change"]_vars

\* a set of width to 10 raised what a listener of 'change width' threw, while
\* a listener of 'change' was registered before the thrower
C37_Witness ==
  /\ eCall.op = "set" /\ eCall.value = "10"
  /\ ThrewAt(eCall, "change width")
  /\ Get(mData, "width") = "10"
  /\ \E j \in 1..Len(eListeners) :
       /\ eListeners[j].event = "change"
       /\ eListeners[j].id < eCall.received[Len(eCall.received)].id

\* --- Model: listeners that call back into the model ---

\* the depth of nested set calls the call stack allows
MaxDepth == 4

\* the value a reacting listener sets width to; listeners that set different
\* values form a mutation cycle, which callers are to avoid
ReactValues == {"3"}

\* the listeners registered: one that returns, one that throws, and one that
\* reacts with model.set('width', c)
ListenerKinds ==
  {[throws |-> t, sets |-> Undefined] : t \in BOOLEAN}
    \cup {[throws |-> FALSE, sets |-> c] : c \in ReactValues}

\* the listener calls a dispatch makes: for each event in order, the listeners
\* of its type in registration order
RECURSIVE listenerCalls(_, _)
listenerCalls(listeners, events) ==
  IF events = <<>> THEN <<>>
  ELSE LET heard == SelectSeq(listeners, LAMBDA l : l.event = Head(events).type)
       IN [i \in 1..Len(heard) |->
             [id |-> heard[i].id, type |-> Head(events).type, args |-> Head(events).args,
              throws |-> heard[i].throws, sets |-> heard[i].sets]]
            \o listenerCalls(listeners, Tail(events))

\* model.set(property, value, {setSilent}) with listeners that may themselves
\* call model.set: the bags are written, then each listener is called in turn
\* on the bags as the calls before it left them; a listener that throws, or a
\* nested call beyond the call stack (RangeError), ends every call under way:
\* [data, previousData, err, received]
RECURSIVE Model_setReentrant(_, _, _, _, _, _, _)
RECURSIVE invokeListeners(_, _, _, _, _)
invokeListeners(d, prev, listeners, calls, depth) ==
  IF calls = <<>> THEN [data |-> d, previousData |-> prev, err |-> "none", received |-> <<>>]
  ELSE LET c == Head(calls)
           got == <<[id |-> c.id, type |-> c.type, args |-> c.args]>>
           inner == IF c.throws
                    THEN [data |-> d, previousData |-> prev, err |-> "Error",
                          received |-> <<>>]
                    ELSE IF c.sets = Undefined
                    THEN [data |-> d, previousData |-> prev, err |-> "none",
                          received |-> <<>>]
                    ELSE IF depth = 0
                    THEN [data |-> d, previousData |-> prev, err |-> "RangeError",
                          received |-> <<>>]
                    ELSE Model_setReentrant(d, prev, listeners, "width", c.sets, FALSE,
                                            depth - 1)
       IN IF inner.err # "none"
          THEN [inner EXCEPT !.received = got \o inner.received]
          ELSE LET rest == invokeListeners(inner.data, inner.previousData, listeners,
                                           Tail(calls), depth)
               IN [rest EXCEPT !.received = got \o inner.received \o rest.received]

Model_setReentrant(d, prev, listeners, property, value, setSilent, depth) ==
  LET o == Model_set(d, prev, property, value, setSilent, FALSE)
  IN invokeListeners(o.data, o.previousData, listeners,
                     listenerCalls(listeners, o.events), depth)

\* model.addEventListener(event, listener), the listener being of a kind
AddListener(event, kind) ==
  /\ eCall = ListenerIdle
  /\ eIssued < MaxListeners
  /\ eListeners' = Append(eListeners, [id |-> eIssued + 1, event |-> event,
                                       throws |-> kind.throws, sets |-> kind.sets])
  /\ eIssued' = eIssued + 1
  /\ eCall' = [ListenerIdle EXCEPT !.op = "addEventListener", !.property = event]
  /\ UNCHANGED <<eDefined, eDisposed, eRemoved, modelVars, outsideListeners>>

\* model.set('width', value, {setSilent})
ReentrantSet(value, setSilent) ==
  LET r == Model_setReentrant(mData, mPreviousData, eListeners, "width", value,
                              setSilent, MaxDepth)
  IN /\ eCall = ListenerIdle
     /\ mData' = r.data
     /\ mPreviousData' = r.previousData
     /\ eCall' = [ListenerIdle EXCEPT !.op = "set", !.property = "width",
                                      !.value = value, !.setSilent = setSilent,
                                      !.err = r.err, !.received = r.received]
     /\ UNCHANGED <<eListeners, eDefined, eDisposed, eRemoved, eIssued,
                    mCall, mCreated, mDrawn, outsideListeners>>

ReentrantNext ==
  \/ \E event \in EventTypes, kind \in ListenerKinds : AddListener(event, kind)
  \/ \E event \in EventTypes, id \in 1..eIssued : RemoveEventListener(event, id)
  \/ \E value \in SetValues \cup ReactValues, setSilent \in BOOLEAN :
       ReentrantSet(value, setSilent)
  \/ ListenerReturn

SpecReentrant == ListenerInit /\ [][ReentrantNext]_vars

\* the listeners of 'change width' that react by setting width
Reacting == {j \in 1..Len(eListeners) :
               eListeners[j].event = "change width" /\ eListeners[j].sets # Undefined}

\* C38: a set that has called a listener of 'change width' which reacts by
\* setting width to c has not run out of call stack; it has called listeners
\* at most twice per listener registered, for at most two changes of width,
\* the second one to c; and the model holds c.
C38_ReentrantConverges ==
  \A j \in Reacting :
    (eCall.op = "set"
       /\ \E i \in 1..Len(eCall.received) : eCall.received[i].id = eListeners[j].id)
      => LET R == eCall.received
             c == eListeners[j].sets
             changes == {R[i].args : i \in {k \in 1..Len(R) : R[k].type = "change width"}}
         IN /\ eCall.err # "RangeError"
            /\ Len(R) <= 2 * Len(eListeners)
            /\ Cardinality(changes) <= 2
            /\ \A a \in changes : a[1] \in {eCall.value, c}
            /\ Get(mData, "width") = c

\* a set of width to 10 has called a reacting listener, whose nested set to 3
\* has called it again, and a listener of 'change' twice
C38_Witness ==
  /\ eCall.op = "set" /\ eCall.value = "10" /\ eCall.err = "none"
  /\ Reacting # {}
  /\ Len(eCall.received) = 4
  /\ eCall.received[1].args = <<"10", "0">>
  /\ eCall.received[2].args = <<"3", "10">>
  /\ eCall.received[3].type = "change"
  /\ Get(mData, "width") = "3"

\* --- Registry.getModel with an explicit Constructor ---

\* the Constructor arguments: none, Model, its subclass Rect, and a class whose
\* constructor throws
GetModelCtors == CtorArgs \cup {"Rect"}

\* model instanceof Constructor: Rect extends Model, and Model is the root
InstanceOf(cls, Ctor) == cls = Ctor \/ (Ctor = "Model" /\ cls \in {"Model", "Rect"})

GetModelNext ==
  \/ \E arg \in DataArgs, Ctor \in GetModelCtors : RegistryGetModel(arg, Ctor)
  \/ \E arg \in DataArgs : RegistryNewInstanceFor(arg)
  \/ \E m \in 1..Len(models), key \in {Undefined} \cup KeyInputs : RegistryRegister(m, key)
  \/ \E value \in FactoryKinds \cup {Undefined} : RegistrySetFactory(value)
  \/ Return

SpecGetModel == RegInit /\ [][GetModelNext]_vars

\* C35 as stated: whenever getModel(data, Constructor) returns, the model it
\* returns is an instance of Constructor.
C35_RespectsConstructor ==
  (last.op = "getModel" /\ last.ctor # "none" /\ last.err = "none")
    => InstanceOf(models[last.result].cls, last.ctor)

\* C35 amended: when no model is registered under the valid key of the data
\* bag, the model getModel(data, Constructor) returns is an instance of
\* Constructor, newly built.
C35_ConstructsWithConstructor ==
  [][(last'.op = "getModel" /\ last'.ctor # "none" /\ last'.err = "none"
        /\ ~(keyValidator(Get(last'.arg.bag, keyAttr))
               /\ Get(last'.arg.bag, keyAttr) \in DOMAIN rMap.entries))
       => /\ last'.result = Len(models) + 1
          /\ InstanceOf(models'[last'.result].cls, last'.ctor)]_vars

\* getModel built a Rect from a bag whose key was not registered, beside an
\* entry that was already there
C35_Witness ==
  /\ last.op = "getModel" /\ last.ctor = "Rect" /\ last.err = "none"
  /\ last.constructed = 1
  /\ models[last.result].cls = "Rect"
  /\ Cardinality(DOMAIN rMap.entries) = 2

\* C36 as stated: every entry (k, m) of the registry before a getModel call is
\* still there after it, whether the call returns or raises and whatever
\* allowOverrides is.
C36_GetModelKeepsEntries ==
  [][last'.op = "getModel"
       => \A k \in DOMAIN rMap.entries :
            k \in DOMAIN rMap'.entries /\ rMap'.entries[k] = rMap.entries[k]]_vars

\* C36 amended: every key of the registry before a getModel call is still a
\* key after it, whether the call returns or raises, and maps to the same
\* model, with one exception: when overrides are allowed and the bag carries
\* no valid key, the call registers the model it constructs under the key of
\* that model's own data, and if that key was registered it maps to the new
\* model, which the call returns. With overrides not allowed, and for a bag
\* that carries a valid key, every entry is kept.
C36_GetModelReplacesOnlyUnderOwnKey ==
  [][last'.op = "getModel"
       => \A k \in DOMAIN rMap.entries :
            /\ k \in DOMAIN rMap'.entries
            /\ \/ rMap'.entries[k] = rMap.entries[k]
               \/ /\ rOptions.allowOverrides = ALLOW_OVERRIDES
                  /\ ~keyValidator(Get(last'.arg.bag, keyAttr))
                  /\ last'.err = "none" /\ last'.constructed = 1
                  /\ last'.key = k
                  /\ last'.result = Len(models')
                  /\ Get(models'[last'.result].data, keyAttr) = k
                  /\ rMap'.entries[k] = last'.result]_vars

\* with overrides allowed, getModel of a bag without a key has constructed a
\* model whose own key was registered and has put it in the place of the
\* model that was registered under that key
C36_Witness ==
  /\ last.op = "getModel" /\ last.err = "none" /\ last.constructed = 1
  /\ rOptions.allowOverrides = ALLOW_OVERRIDES
  /\ Get(last.arg.bag, keyAttr) = Undefined
  /\ last.replaced
  /\ rMap.entries[last.key] = last.result

====
